---- MODULE Spec2Model ----
(***************************************************************************)
(* Model of the method-catalog front end: the application store            *)
(* (appReducer and its action creators), the filter/search/sort engine     *)
(* (lib/filters.js) and the dataset load sequence.                         *)
(***************************************************************************)
EXTENDS Integers, Sequences, FiniteSets, TLC

VARIABLES
    state,        \* the store: the reducer's state object
    lastAction,   \* the action most recently dispatched to the store
    steps,        \* number of handlers run so far
    load,         \* the dataset loader: cachedData and the load in flight
    fx,           \* the filter/sort engine under test: inputs, result, position
    event,        \* the view handler that ran last, with its argument
    viz           \* a chart component: its refs, effect runs and callbacks

vars == <<state, lastAction, steps, load, fx, event, viz>>

(***************************************************************************)
(* Bounds of the model                                                     *)
(***************************************************************************)
NumIds == 4
MaxSteps == 4
MaxMethods == 3

(***************************************************************************)
(* Values                                                                  *)
(***************************************************************************)
NULL == "null"

IdPool == <<"m1", "m2", "m3", "m4", "m5", "m6", "m7", "m8">>
MethodIds == {IdPool[i] : i \in 1..NumIds}

StepIds == {"collect", "preprocess"}
ModalityIds == {"text", "image"}

\* JavaScript truthiness of a nullable string: null and '' are falsy
Truthy(v) == v # NULL /\ v # ""

\* A nullable number or object is <<>> (null / undefined) or <<v>>; a string
\* that the code measures or trims (the search query) is a sequence of
\* characters.
Some(v) == <<v>>
None == <<>>

(***************************************************************************)
(* Sequence helpers (Array.prototype.includes / filter)                    *)
(***************************************************************************)
Includes(seq, x) == \E i \in 1..Len(seq) : seq[i] = x

RECURSIVE Without(_, _)
Without(seq, x) ==
    IF seq = <<>> THEN <<>>
    ELSE IF Head(seq) = x THEN Without(Tail(seq), x)
         ELSE <<Head(seq)>> \o Without(Tail(seq), x)

(***************************************************************************)
(* The store                                                               *)
(***************************************************************************)
FILTER_DEFAULTS ==
    [ pipelineStep   |-> NULL,
      modalities     |-> <<>>,
      tasks          |-> <<>>,
      evidenceTypes  |-> <<>>,
      maturityLevels |-> <<>>,
      yearRange      |-> [min |-> <<>>, max |-> <<>>],
      searchQuery    |-> <<>> ]

initialState ==
    [ data             |-> <<>>,
      loading          |-> TRUE,
      error            |-> NULL,
      validationErrors |-> <<>>,
      filters          |-> FILTER_DEFAULTS,
      selectedStep     |-> NULL,
      selectedModality |-> NULL,
      selectedMethodId |-> NULL,
      hoveredMethodId  |-> NULL,
      compareMethodIds |-> <<>>,
      isCompareMode    |-> FALSE,
      showFilters      |-> FALSE,
      sortBy           |-> "name",
      sortOrder        |-> "asc",
      searchIndex      |-> <<>> ]

\* { ...state.filters, ...action.payload }: the payload's keys override
MergeFilters(filters, partial) ==
    [k \in DOMAIN filters |->
        IF k \in DOMAIN partial THEN partial[k] ELSE filters[k]]

ReduceSetFilters(s, payload) ==
    [s EXCEPT !.filters = MergeFilters(s.filters, payload)]

\* variant: the reset also empties the compare set
ReduceResetFiltersClearsCompare(s) ==
    [s EXCEPT !.filters = FILTER_DEFAULTS,
              !.selectedStep = NULL,
              !.selectedModality = NULL,
              !.compareMethodIds = <<>>]

\* variant: the reset only restores the filters
ReduceResetFiltersKeepsSelection(s) ==
    [s EXCEPT !.filters = FILTER_DEFAULTS]

ReduceResetFilters(s) ==
    [s EXCEPT !.filters = FILTER_DEFAULTS,
              !.selectedStep = NULL,
              !.selectedModality = NULL]

\* variant: the stage is set and the modality selection is kept
ReduceSetSelectedStepKeepsModality(s, payload) ==
    [s EXCEPT !.selectedStep = payload,
              !.filters = [s.filters EXCEPT !.pipelineStep = payload]]

ReduceSetSelectedStep(s, payload) ==
    [s EXCEPT !.selectedStep = payload,
              !.selectedModality = NULL,
              !.filters = [s.filters EXCEPT !.pipelineStep = payload,
                                            !.modalities = <<>>]]

\* variant: the modality is added to the modalities already in the filter
ReduceSetSelectedModalityAppends(s, payload) ==
    [s EXCEPT !.selectedStep = "collect",
              !.selectedModality = payload,
              !.filters = [s.filters EXCEPT
                  !.pipelineStep = "collect",
                  !.modalities = IF Truthy(payload)
                                 THEN Append(s.filters.modalities, payload)
                                 ELSE <<>>]]

\* variant: a null modality also clears the stage
ReduceSetSelectedModalityClearsStage(s, payload) ==
    [s EXCEPT !.selectedStep = IF Truthy(payload) THEN "collect" ELSE NULL,
              !.selectedModality = payload,
              !.filters = [s.filters EXCEPT
                  !.pipelineStep = IF Truthy(payload) THEN "collect" ELSE NULL,
                  !.modalities = IF Truthy(payload) THEN <<payload>> ELSE <<>>]]

ReduceSetSelectedModality(s, payload) ==
    [s EXCEPT !.selectedStep = "collect",
              !.selectedModality = payload,
              !.filters = [s.filters EXCEPT
                  !.pipelineStep = "collect",
                  !.modalities = IF Truthy(payload) THEN <<payload>> ELSE <<>>]]

COMPARE_LIMIT == 3

\* variant: the size test is off by one
ToggleCompareOffByOne(current, methodId) ==
    IF Includes(current, methodId) THEN Without(current, methodId)
    ELSE IF Len(current) <= COMPARE_LIMIT THEN Append(current, methodId)
    ELSE current

\* variant: a full set evicts its oldest id
ToggleCompareEvictOldest(current, methodId) ==
    IF Includes(current, methodId) THEN Without(current, methodId)
    ELSE IF Len(current) < COMPARE_LIMIT THEN Append(current, methodId)
    ELSE Append(Tail(current), methodId)

\* variant: a new id is put in front
ToggleComparePrepends(current, methodId) ==
    IF Includes(current, methodId) THEN Without(current, methodId)
    ELSE IF Len(current) < COMPARE_LIMIT THEN <<methodId>> \o current
    ELSE current

ToggleCompare(current, methodId) ==
    IF Includes(current, methodId) THEN Without(current, methodId)
    ELSE IF Len(current) < COMPARE_LIMIT THEN Append(current, methodId)
    ELSE current

ReduceToggleCompareMethod(s, payload) ==
    [s EXCEPT !.compareMethodIds = ToggleCompare(s.compareMethodIds, payload)]

ReduceClearCompare(s) ==
    [s EXCEPT !.compareMethodIds = <<>>, !.isCompareMode = FALSE]

appReducer(s, action) ==
    CASE action.type = "SET_DATA" ->
            [s EXCEPT !.data = action.payload, !.loading = FALSE, !.error = NULL]
      [] action.type = "SET_ERROR" ->
            [s EXCEPT !.error = action.payload, !.loading = FALSE]
      [] action.type = "SET_LOADING" ->
            [s EXCEPT !.loading = action.payload]
      [] action.type = "SET_VALIDATION_ERRORS" ->
            [s EXCEPT !.validationErrors = action.payload]
      [] action.type = "SET_FILTERS" -> ReduceSetFilters(s, action.payload)
      [] action.type = "RESET_FILTERS" -> ReduceResetFilters(s)
      [] action.type = "SET_SELECTED_STEP" -> ReduceSetSelectedStep(s, action.payload)
      [] action.type = "SET_SELECTED_MODALITY" ->
            ReduceSetSelectedModality(s, action.payload)
      [] action.type = "SET_SELECTED_METHOD" ->
            [s EXCEPT !.selectedMethodId = action.payload]
      [] action.type = "SET_HOVERED_METHOD" ->
            [s EXCEPT !.hoveredMethodId = action.payload]
      [] action.type = "TOGGLE_COMPARE_METHOD" ->
            ReduceToggleCompareMethod(s, action.payload)
      [] action.type = "CLEAR_COMPARE" -> ReduceClearCompare(s)
      [] action.type = "SET_COMPARE_MODE" ->
            [s EXCEPT !.isCompareMode = action.payload]
      [] action.type = "TOGGLE_FILTERS" ->
            [s EXCEPT !.showFilters = ~s.showFilters]
      [] action.type = "SET_SORT" ->
            [s EXCEPT !.sortBy = action.payload.sortBy,
                      !.sortOrder = action.payload.order]
      [] action.type = "SET_SEARCH_INDEX" ->
            [s EXCEPT !.searchIndex = action.payload]
      [] OTHER -> s

(***************************************************************************)
(* Method records                                                          *)
(***************************************************************************)
Method(id, name, step, mods, tks, ev, mat, yr) ==
    [ id |-> id, name |-> name, pipeline_step |-> step, modalities |-> mods,
      tasks |-> tks, evidence_type |-> ev, maturity |-> mat,
      year |-> yr,              \* references?.year
      searchScore |-> None ]    \* present only on search results

Universe ==
    << Method("m1", "beta",  "collect",      <<"text">>,          <<"cleaning">>,
              "empirical",   "research", Some(2019)),
       Method("m2", "alpha", "preprocess",   <<"image">>,         <<"fusion">>,
              "theoretical", "mature",   Some(2020)),
       Method("m3", "beta",  "apply_mining", <<"text", "video">>, <<"cleaning", "fusion">>,
              "empirical",   "emerging", Some(2021)),
       Method("m4", "alpha", "collect",      <<>>,                <<>>,
              "empirical",   "research", None),
       Method("m5", "gamma", "preprocess",   <<"image">>,         <<"cleaning">>,
              "theoretical", "mature",   Some(2020)) >>

\* every list of at most n distinct methods of the universe
RECURSIVE ListsUpTo(_)
ListsUpTo(n) ==
    IF n = 0 THEN {<<>>}
    ELSE LET shorter == ListsUpTo(n - 1)
         IN  shorter \cup
             { Append(l, Universe[i]) :
                 l \in {x \in shorter : Len(x) = n - 1},
                 i \in 1..Len(Universe) } 

Distinct(seq) == \A i, j \in 1..Len(seq) : i # j => seq[i] # seq[j]

MethodLists == {l \in ListsUpTo(MaxMethods) : Distinct(l)}

(***************************************************************************)
(* lib/filters.js: search                                                  *)
(***************************************************************************)
\* String.prototype.trim on a sequence of characters
RECURSIVE TrimLeft(_)
TrimLeft(q) == IF q # <<>> /\ Head(q) = " " THEN TrimLeft(Tail(q)) ELSE q

RECURSIVE TrimRight(_)
TrimRight(q) ==
    IF q # <<>> /\ q[Len(q)] = " " THEN TrimRight(SubSeq(q, 1, Len(q) - 1)) ELSE q

Trim(q) == TrimRight(TrimLeft(q))

MIN_QUERY_LENGTH == 2

\* new Fuse(methods, options): the documents, and the answer the library
\* gives to the query of the run, a list of [refIndex, score] (score in
\* hundredths), which is an input of the model
createSearchIndex(methods, hits) == [docs |-> methods, hits |-> hits]

FuseSearch(searchIndex, query) == searchIndex.hits

\* the "no search filter applied" value of searchMethods
NoSearch == [applied |-> FALSE, results |-> <<>>]

\* a variant that answers "no search" when nothing matches
searchMethodsNullOnNoMatch(searchIndex, query) ==
    IF query = <<>> \/ Len(Trim(query)) < MIN_QUERY_LENGTH THEN NoSearch
    ELSE LET results == FuseSearch(searchIndex, Trim(query))
         IN  IF results = <<>> THEN NoSearch
             ELSE [applied |-> TRUE,
                   results |-> [k \in 1..Len(results) |->
                      [searchIndex.docs[results[k].refIndex] EXCEPT
                          !.searchScore = Some(results[k].score)]]]

searchMethods(searchIndex, query) ==
    IF query = <<>> \/ Len(Trim(query)) < MIN_QUERY_LENGTH THEN NoSearch
    ELSE LET results == FuseSearch(searchIndex, Trim(query))
         IN  [applied |-> TRUE,
              results |-> [k \in 1..Len(results) |->
                  [searchIndex.docs[results[k].refIndex] EXCEPT
                      !.searchScore = Some(results[k].score)]]]

\* a variant that writes the score into the indexed record itself
searchMethodsSourceAnnotated(searchIndex, query) ==
    IF query = <<>> \/ Len(Trim(query)) < MIN_QUERY_LENGTH THEN searchIndex.docs
    ELSE LET results == FuseSearch(searchIndex, Trim(query))
         IN  [i \in 1..Len(searchIndex.docs) |->
                IF \E k \in 1..Len(results) : results[k].refIndex = i
                THEN [searchIndex.docs[i] EXCEPT !.searchScore =
                        Some((CHOOSE h \in {results[k] : k \in 1..Len(results)} :
                                h.refIndex = i).score)]
                ELSE searchIndex.docs[i]]

\* the indexed records after searchMethods has run: each hit is spread into
\* a new object that receives the score, the indexed record is not written
searchMethodsSource(searchIndex, query) == searchIndex.docs

(***************************************************************************)
(* lib/filters.js: filterMethods                                           *)
(***************************************************************************)
\* some element of xs is included in selector
SomeIncluded(xs, selector) == \E i \in 1..Len(xs) : Includes(selector, xs[i])

\* truthiness of a nullable number: null, undefined and 0 are falsy
NumTruthy(n) == n # None /\ n[1] # 0

\* year < bound and year > bound: a comparison with undefined is false
YearBelow(year, bound) == year # None /\ year[1] < bound[1]
YearAbove(year, bound) == year # None /\ year[1] > bound[1]

PassesStep(method, filters) ==
    ~(Truthy(filters.pipelineStep) /\ method.pipeline_step # filters.pipelineStep)

\* variant: an empty modality selector is not skipped
PassesModalitiesNoSkip(method, filters) ==
    SomeIncluded(method.modalities, filters.modalities)

PassesModalities(method, filters) ==
    Len(filters.modalities) > 0 => SomeIncluded(method.modalities, filters.modalities)

PassesTasks(method, filters) ==
    Len(filters.tasks) > 0 => SomeIncluded(method.tasks, filters.tasks)

PassesEvidence(method, filters) ==
    Len(filters.evidenceTypes) > 0 =>
        Includes(filters.evidenceTypes, method.evidence_type)

PassesMaturity(method, filters) ==
    Len(filters.maturityLevels) > 0 =>
        Includes(filters.maturityLevels, method.maturity)

PassesYear(method, filters) ==
    /\ ~(NumTruthy(filters.yearRange.min) /\ YearBelow(method.year, filters.yearRange.min))
    /\ ~(NumTruthy(filters.yearRange.max) /\ YearAbove(method.year, filters.yearRange.max))

FilterPredicate(method, filters) ==
    /\ PassesStep(method, filters)
    /\ PassesModalities(method, filters)
    /\ PassesTasks(method, filters)
    /\ PassesEvidence(method, filters)
    /\ PassesMaturity(method, filters)
    /\ PassesYear(method, filters)

filterMethods(methods, filters) ==
    SelectSeq(methods, LAMBDA m : FilterPredicate(m, filters))

\* the argument array after filterMethods has run: Array.prototype.filter
\* builds a new array and the predicate only reads
filterMethodsSource(methods, filters) == methods

applyFiltersAndSearch(methods, searchIndex, filters) ==
    LET searched ==
            IF filters.searchQuery # <<>>
               /\ Len(Trim(filters.searchQuery)) >= MIN_QUERY_LENGTH
            THEN LET searchResults == searchMethods(searchIndex, filters.searchQuery)
                 IN  IF searchResults.applied THEN searchResults.results ELSE methods
            ELSE methods
    IN  filterMethods(searched, filters)

\* the methods array after applyFiltersAndSearch has run; the search index
\* holds the records of this array.  `result` is rebound to the search
\* results, so filterMethods receives the methods array only without search.
applyFiltersAndSearchSource(methods, searchIndex, filters) ==
    IF filters.searchQuery # <<>>
       /\ Len(Trim(filters.searchQuery)) >= MIN_QUERY_LENGTH
    THEN LET searchResults == searchMethods(searchIndex, filters.searchQuery)
             docs == searchMethodsSource(searchIndex, filters.searchQuery)
         IN  IF searchResults.applied THEN docs
             ELSE filterMethodsSource(docs, filters)
    ELSE filterMethodsSource(methods, filters)

(***************************************************************************)
(* lib/filters.js: sortMethods                                             *)
(***************************************************************************)
\* String.prototype.localeCompare on the names and stage ids of the model:
\* the position in the collation order
Collation ==
    << "abstract_aggregate", "alpha", "apply_mining", "beta", "collect",
       "correlate_cases", "enhance_visualization", "gamma", "preprocess" >>

CollationRank(str) == CHOOSE i \in 1..Len(Collation) : Collation[i] = str

Sign(n) == IF n < 0 THEN -1 ELSE IF n > 0 THEN 1 ELSE 0

localeCompare(a, b) == Sign(CollationRank(a) - CollationRank(b))

\* maturityOrder[m] || 0
maturityOrder(m) ==
    CASE m = "research" -> 0
      [] m = "emerging" -> 1
      [] m = "established" -> 2
      [] m = "mature" -> 3
      [] OTHER -> 0

\* n || fallback
NumOr(n, fallback) == IF NumTruthy(n) THEN n[1] ELSE fallback

YEAR_FALLBACK == 0
SCORE_FALLBACK == 100   \* 1, in hundredths

Comparison(a, b, sortBy) ==
    CASE sortBy = "name" -> localeCompare(a.name, b.name)
      [] sortBy = "year" -> NumOr(a.year, YEAR_FALLBACK) - NumOr(b.year, YEAR_FALLBACK)
      [] sortBy = "maturity" -> maturityOrder(a.maturity) - maturityOrder(b.maturity)
      [] sortBy = "pipeline_step" -> localeCompare(a.pipeline_step, b.pipeline_step)
      [] sortBy = "searchScore" ->
            NumOr(a.searchScore, SCORE_FALLBACK) - NumOr(b.searchScore, SCORE_FALLBACK)
      [] OTHER -> 0

Comparator(a, b, sortBy, order) ==
    IF order = "desc" THEN 0 - Comparison(a, b, sortBy) ELSE Comparison(a, b, sortBy)

\* Array.prototype.sort, which is stable: an element is placed behind every
\* earlier element that does not compare greater than it
RECURSIVE SortInsert(_, _, _, _)
SortInsert(sorted, x, sortBy, order) ==
    IF sorted = <<>> THEN <<x>>
    ELSE IF Comparator(sorted[Len(sorted)], x, sortBy, order) > 0
         THEN Append(SortInsert(SubSeq(sorted, 1, Len(sorted) - 1), x, sortBy, order),
                     sorted[Len(sorted)])
         ELSE Append(sorted, x)

RECURSIVE ArraySort(_, _, _)
ArraySort(arr, sortBy, order) ==
    IF arr = <<>> THEN <<>>
    ELSE SortInsert(ArraySort(SubSeq(arr, 1, Len(arr) - 1), sortBy, order),
                    arr[Len(arr)], sortBy, order)

Reverse(seq) == [k \in 1..Len(seq) |-> seq[Len(seq) + 1 - k]]

\* variant: descending order by reversing the ascending result
sortMethodsReversed(methods, sortBy, order) ==
    IF order = "desc" THEN Reverse(ArraySort(methods, sortBy, "asc"))
    ELSE ArraySort(methods, sortBy, order)

sortMethods(methods, sortBy, order) == ArraySort(methods, sortBy, order)

\* a variant that sorts the argument array itself
sortMethodsSourceInPlace(methods, sortBy, order) ==
    ArraySort(methods, sortBy, order)

\* the argument array after sortMethods has run: the sort is applied to the
\* spread copy `sorted`
sortMethodsSource(methods, sortBy, order) == methods

(***************************************************************************)
(* lib/data.js: validateMethodsData                                        *)
(***************************************************************************)
validPipelineSteps ==
    {"collect", "preprocess", "abstract_aggregate", "correlate_cases",
     "enhance_visualization", "apply_mining"}

validModalities == {"text", "image", "video", "audio", "sensor", "mixed"}

validTasks ==
    {"cleaning", "chunking", "fusion", "abstraction", "correlation",
     "uncertainty", "visualization", "discovery", "conformance", "prediction"}

RECURSIVE InvalidValues(_, _, _, _)
InvalidValues(kind, id, values, valid) ==
    IF values = <<>> THEN <<>>
    ELSE (IF Head(values) \in valid THEN <<>>
          ELSE <<[kind |-> kind, id |-> id, value |-> Head(values)]>>)
         \o InvalidValues(kind, id, Tail(values), valid)

\* those of the fifteen required fields that the method records carry as
\* nullable strings; a field that is undefined is NULL
requiredFields == <<"id", "name", "pipeline_step">>

RECURSIVE MissingFields(_, _, _)
MissingFields(method, index, fields) ==
    IF fields = <<>> THEN <<>>
    ELSE (IF method[Head(fields)] = NULL
          THEN <<[kind |-> "missing required field",
                  id |-> IF Truthy(method.id) THEN method.id ELSE "unknown",
                  value |-> Head(fields), index |-> index]>>
          ELSE <<>>)
         \o MissingFields(method, index, Tail(fields))

\* the other warnings the forEach body pushes for one method
MethodErrors(methods, method) ==
    (IF Truthy(method.pipeline_step) /\ method.pipeline_step \notin validPipelineSteps
     THEN <<[kind |-> "invalid pipeline_step", id |-> method.id,
             value |-> method.pipeline_step]>>
     ELSE <<>>)
    \o InvalidValues("invalid modality", method.id, method.modalities, validModalities)
    \o InvalidValues("invalid task", method.id, method.tasks, validTasks)
    \o (IF Len(SelectSeq(methods, LAMBDA m : m.id = method.id)) > 1
        THEN <<[kind |-> "duplicate id", id |-> method.id, value |-> method.id]>>
        ELSE <<>>)

RECURSIVE ErrorsFrom(_, _)
ErrorsFrom(methods, k) ==
    IF k > Len(methods) THEN <<>>
    ELSE MissingFields(methods[k], k - 1, requiredFields)
         \o MethodErrors(methods, methods[k])
         \o ErrorsFrom(methods, k + 1)

validateMethodsData(data) ==
    LET errors == ErrorsFrom(data.methods, 1)
    IN  [isValid |-> Len(errors) = 0, errors |-> errors]

(***************************************************************************)
(* Inputs of the store's actions                                           *)
(***************************************************************************)
\* the datasets the fetch can deliver
Datasets ==
    { [methods |-> <<Universe[1], Universe[2]>>],
      [methods |-> <<Universe[1], [Universe[1] EXCEPT !.pipeline_step = "mining"]>>] }

\* the answers the search library can give over a list of documents
FuseOutcomes(methods) ==
    { <<>>,
      [k \in 1..Len(methods) |->
          [refIndex |-> Len(methods) + 1 - k, score |-> 20 * (k - 1)]] }

LoadErrors == {"Failed to load methods data: 404"}

SelectableIds == {NULL, IdPool[1]}

Queries == {<<>>, <<"a">>, <<"a", "b">>}

FilterPartials ==
    { [pipelineStep |-> "preprocess"] }
    \cup { [modalities |-> m] : m \in {<<>>, <<"text">>, <<"text", "image">>} }
    \cup { [tasks |-> <<"cleaning">>] }
    \cup { [evidenceTypes |-> <<"empirical">>] }
    \cup { [maturityLevels |-> <<"mature">>] }
    \cup { [yearRange |-> [min |-> Some(2020), max |-> None]] }
    \cup { [searchQuery |-> q] : q \in Queries }
    \cup { [searchQuery |-> <<>>, modalities |-> <<>>, tasks |-> <<>>] }

SortKeys == {"name", "year", "maturity", "pipeline_step", "searchScore", "relevance"}
SortOrders == {"asc", "desc"}

(***************************************************************************)
(* The store's actions                                                     *)
(***************************************************************************)
\* no chart component is mounted
NoViz == [kind |-> "none"]

\* no view handler has run
NoEvent == [handler |-> "none", arg |-> NULL]

Idle == [pc |-> "idle"]

\* Each action creator is dispatched from an event handler: the reducer is
\* applied to the store and the action is remembered in lastAction.
setSelectedStep ==
    /\ steps < MaxSteps
    /\ \E stepId \in StepIds \cup {NULL} :
        LET action == [type |-> "SET_SELECTED_STEP", payload |-> stepId]
        IN  /\ state' = appReducer(state, action)
            /\ lastAction' = action
    /\ steps' = steps + 1
    /\ UNCHANGED <<load, fx, event, viz>>

setSelectedModality ==
    /\ steps < MaxSteps
    /\ \E modalityId \in ModalityIds \cup {NULL} :
        LET action == [type |-> "SET_SELECTED_MODALITY", payload |-> modalityId]
        IN  /\ state' = appReducer(state, action)
            /\ lastAction' = action
    /\ steps' = steps + 1
    /\ UNCHANGED <<load, fx, event, viz>>

setSelectedMethod ==
    /\ steps < MaxSteps
    /\ \E methodId \in SelectableIds :
        LET action == [type |-> "SET_SELECTED_METHOD", payload |-> methodId]
        IN  /\ state' = appReducer(state, action)
            /\ lastAction' = action
    /\ steps' = steps + 1
    /\ UNCHANGED <<load, fx, event, viz>>

setHoveredMethod ==
    /\ steps < MaxSteps
    /\ \E methodId \in SelectableIds :
        LET action == [type |-> "SET_HOVERED_METHOD", payload |-> methodId]
        IN  /\ state' = appReducer(state, action)
            /\ lastAction' = action
    /\ steps' = steps + 1
    /\ UNCHANGED <<load, fx, event, viz>>

setFilters ==
    /\ steps < MaxSteps
    /\ \E partial \in FilterPartials :
        LET action == [type |-> "SET_FILTERS", payload |-> partial]
        IN  /\ state' = appReducer(state, action)
            /\ lastAction' = action
    /\ steps' = steps + 1
    /\ UNCHANGED <<load, fx, event, viz>>

resetFilters ==
    /\ steps < MaxSteps
    /\ LET action == [type |-> "RESET_FILTERS", payload |-> NULL]
       IN  /\ state' = appReducer(state, action)
           /\ lastAction' = action
    /\ steps' = steps + 1
    /\ UNCHANGED <<load, fx, event, viz>>

toggleCompareMethod ==
    /\ steps < MaxSteps
    /\ \E methodId \in MethodIds :
        LET action == [type |-> "TOGGLE_COMPARE_METHOD", payload |-> methodId]
        IN  /\ state' = appReducer(state, action)
            /\ lastAction' = action
    /\ steps' = steps + 1
    /\ UNCHANGED <<load, fx, event, viz>>

clearCompare ==
    /\ steps < MaxSteps
    /\ LET action == [type |-> "CLEAR_COMPARE", payload |-> NULL]
       IN  /\ state' = appReducer(state, action)
           /\ lastAction' = action
    /\ steps' = steps + 1
    /\ UNCHANGED <<load, fx, event, viz>>

setCompareMode ==
    /\ steps < MaxSteps
    /\ \E enabled \in BOOLEAN :
        LET action == [type |-> "SET_COMPARE_MODE", payload |-> enabled]
        IN  /\ state' = appReducer(state, action)
            /\ lastAction' = action
    /\ steps' = steps + 1
    /\ UNCHANGED <<load, fx, event, viz>>

toggleFilters ==
    /\ steps < MaxSteps
    /\ LET action == [type |-> "TOGGLE_FILTERS", payload |-> NULL]
       IN  /\ state' = appReducer(state, action)
           /\ lastAction' = action
    /\ steps' = steps + 1
    /\ UNCHANGED <<load, fx, event, viz>>

setSort ==
    /\ steps < MaxSteps
    /\ \E sortBy \in {"name", "year"}, order \in SortOrders :
        LET action == [type |-> "SET_SORT", payload |-> [sortBy |-> sortBy, order |-> order]]
        IN  /\ state' = appReducer(state, action)
            /\ lastAction' = action
    /\ steps' = steps + 1
    /\ UNCHANGED <<load, fx, event, viz>>

\* a variant of the try block that treats failed validation as a failure
loadDataTryFatal(s, data, hits) ==
    LET validation == validateMethodsData(data)
    IN  IF ~validation.isValid
        THEN appReducer(s, [type |-> "SET_ERROR", payload |-> "Invalid dataset"])
        ELSE appReducer(
                appReducer(s, [type |-> "SET_SEARCH_INDEX",
                               payload |-> Some(createSearchIndex(data.methods, hits))]),
                [type |-> "SET_DATA", payload |-> Some(data)])

\* the store after the try block of loadData() has run on the fetched
\* dataset: validation warnings, then the search index, then the data
loadDataTry(s, data, hits) ==
    LET validation == validateMethodsData(data)
        s1 == IF ~validation.isValid
              THEN appReducer(s, [type |-> "SET_VALIDATION_ERRORS",
                                  payload |-> validation.errors])
              ELSE s
        s2 == appReducer(s1, [type |-> "SET_SEARCH_INDEX",
                              payload |-> Some(createSearchIndex(data.methods, hits))])
    IN  appReducer(s2, [type |-> "SET_DATA", payload |-> Some(data)])

\* a variant of the catch block that swallows the failure
loadDataCatchSilent(s, message) == s

\* the store after the catch block of loadData() has run
loadDataCatch(s, message) ==
    appReducer(s, [type |-> "SET_ERROR", payload |-> message])

\* loadData() of the provider's mount effect, from the point where the fetch
\* of loadMethodsData() delivers the dataset
loadDataFulfilled ==
    /\ load.pc = "fetching"
    /\ steps < MaxSteps
    /\ \E data \in Datasets : \E hits \in FuseOutcomes(data.methods) :
        /\ state' = loadDataTry(state, data, hits)
        /\ lastAction' = [type |-> "SET_DATA", payload |-> Some(data)]
        /\ load' = [load EXCEPT !.pc = "done", !.cachedData = Some(data)]
    /\ steps' = steps + 1
    /\ UNCHANGED <<fx, event, viz>>

\* the fetch rejects or answers with a non-success status
loadDataRejected ==
    /\ load.pc = "fetching"
    /\ steps < MaxSteps
    /\ \E message \in LoadErrors :
        /\ state' = loadDataCatch(state, message)
        /\ lastAction' = [type |-> "SET_ERROR", payload |-> message]
    /\ load' = [load EXCEPT !.pc = "done"]
    /\ steps' = steps + 1
    /\ UNCHANGED <<fx, event, viz>>

Init ==
    /\ state = initialState
    /\ lastAction = [type |-> "INIT", payload |-> NULL]
    /\ steps = 0
    /\ load = [pc |-> "fetching", cachedData |-> None]
    /\ event = NoEvent
    /\ viz = NoViz
    /\ fx = Idle

Next ==
    \/ setSelectedStep
    \/ setSelectedModality
    \/ setSelectedMethod
    \/ setHoveredMethod
    \/ setFilters
    \/ resetFilters
    \/ toggleCompareMethod
    \/ clearCompare
    \/ setCompareMode
    \/ toggleFilters
    \/ setSort
    \/ loadDataFulfilled
    \/ loadDataRejected

Spec == Init /\ [][Next]_vars

(***************************************************************************)
(* The filter engine on its own: the inputs are drawn, then                *)
(* applyFiltersAndSearch is applied                                        *)
(***************************************************************************)
\* the queries of the store's inputs, and two with surrounding blanks
EngineQueries == Queries \cup {<<" ", "a", " ">>, <<"a", "b", " ">>}

FilterStates ==
    [ pipelineStep   : {NULL, "collect", "preprocess"},
      modalities     : {<<>>, <<"text">>, <<"image", "video">>},
      tasks          : {<<>>, <<"cleaning">>},
      evidenceTypes  : {<<>>, <<"empirical">>},
      maturityLevels : {<<>>, <<"research", "emerging">>},
      yearRange      : [min : {None, Some(2020)}, max : {None, Some(2020)}],
      searchQuery    : EngineQueries ]

Searches(filters) ==
    filters.searchQuery # <<>> /\ Len(Trim(filters.searchQuery)) >= MIN_QUERY_LENGTH

InitFilter ==
    /\ state = initialState
    /\ lastAction = [type |-> "INIT", payload |-> NULL]
    /\ steps = 0
    /\ load = [pc |-> "fetching", cachedData |-> None]
    /\ event = NoEvent
    /\ viz = NoViz
    /\ \E methods \in MethodLists, filters \in FilterStates :
         \E hits \in (IF Searches(filters) THEN FuseOutcomes(methods) ELSE {<<>>}) :
            fx = [ pc      |-> "filter",
                   methods |-> methods,
                   source  |-> methods,
                   index   |-> createSearchIndex(methods, hits),
                   filters |-> filters,
                   searched |-> NoSearch,
                   result  |-> <<>> ]

ApplyFilters ==
    /\ fx.pc = "filter"
    /\ fx' = [fx EXCEPT
                !.pc = "filtered",
                !.source = applyFiltersAndSearchSource(fx.methods, fx.index, fx.filters),
                !.result = applyFiltersAndSearch(fx.methods, fx.index, fx.filters)]
    /\ UNCHANGED <<state, lastAction, steps, load, event, viz>>

\* searchMethods applied to the drawn index and query
Search ==
    /\ fx.pc = "filter"
    /\ fx' = [fx EXCEPT
                !.pc = "searched",
                !.source = searchMethodsSource(fx.index, fx.filters.searchQuery),
                !.searched = searchMethods(fx.index, fx.filters.searchQuery)]
    /\ UNCHANGED <<state, lastAction, steps, load, event, viz>>

NextFilter == ApplyFilters \/ Search

SpecFilter == InitFilter /\ [][NextFilter]_vars

(***************************************************************************)
(* sortMethods on its own: the inputs are drawn, then it is applied        *)
(***************************************************************************)
\* the score a search would have annotated the method with
ScoreOf(id) ==
    CASE id = "m1" -> Some(0)
      [] id = "m2" -> None
      [] id = "m3" -> Some(20)
      [] id = "m4" -> Some(20)
      [] OTHER -> Some(40)

Annotated(methods) ==
    [k \in 1..Len(methods) |->
        [methods[k] EXCEPT !.searchScore = ScoreOf(methods[k].id)]]

InitSort ==
    /\ state = initialState
    /\ lastAction = [type |-> "INIT", payload |-> NULL]
    /\ steps = 0
    /\ load = [pc |-> "fetching", cachedData |-> None]
    /\ event = NoEvent
    /\ viz = NoViz
    /\ \E methods \in MethodLists, scored \in BOOLEAN,
          sortBy \in SortKeys, order \in SortOrders :
            fx = [ pc      |-> "sort",
                   methods |-> IF scored THEN Annotated(methods) ELSE methods,
                   source  |-> IF scored THEN Annotated(methods) ELSE methods,
                   sortBy  |-> sortBy,
                   order   |-> order,
                   result  |-> <<>> ]

Sort ==
    /\ fx.pc = "sort"
    /\ fx' = [fx EXCEPT !.pc = "sorted",
                        !.source = sortMethodsSource(fx.methods, fx.sortBy, fx.order),
                        !.result = sortMethods(fx.methods, fx.sortBy, fx.order)]
    /\ UNCHANGED <<state, lastAction, steps, load, event, viz>>

NextSort == Sort

SpecSort == InitSort /\ [][NextSort]_vars

(***************************************************************************)
(* The home page: the load sequence and the handlers of its components,    *)
(* which are rendered once loading is over and no error is stored          *)
(***************************************************************************)
MaxClicks == 6

\* the datasets the fetch can deliver to the home page: a valid one, one
\* for each kind of validation warning, and one without methods
LoadedDatasets ==
    Datasets \cup
    { [methods |-> <<[Universe[1] EXCEPT !.name = NULL], Universe[2]>>],
      [methods |-> <<[Universe[1] EXCEPT !.modalities = <<"text", "smell">>,
                                         !.tasks = <<"guessing">>]>>],
      [methods |-> <<>>] }

\* the derived list of the provider (useMemo)
FilteredMethods(s) ==
    IF s.data = None \/ s.searchIndex = None THEN <<>>
    ELSE applyFiltersAndSearch(s.data[1].methods, s.searchIndex[1], s.filters)

\* allMethods of the enhanced state
AllMethods(s) == IF s.data = None THEN <<>> ELSE s.data[1].methods

Elements(seq) == {seq[i] : i \in 1..Len(seq)}

\* the chips the filters panel offers, without their order
getFilterOptions(methods) ==
    [ modalities     |-> UNION {Elements(m.modalities) : m \in Elements(methods)},
      tasks          |-> UNION {Elements(m.tasks) : m \in Elements(methods)},
      evidenceTypes  |-> {m.evidence_type : m \in {x \in Elements(methods) :
                                                    Truthy(x.evidence_type)}},
      maturityLevels |-> {m.maturity : m \in {x \in Elements(methods) :
                                                Truthy(x.maturity)}} ]

\* HomePage renders its sections only in this case
HomeRendered == ~state.loading /\ ~Truthy(state.error)

ViewEvent(handler, arg) == [handler |-> handler, arg |-> arg]

\* a variant of the stage click that toggles off whatever the modality
StepClickActionIgnoresModality(stepId, currentSelected, currentModality) ==
    IF stepId = currentSelected
    THEN [type |-> "SET_SELECTED_STEP", payload |-> NULL]
    ELSE [type |-> "SET_SELECTED_STEP", payload |-> stepId]

\* the action handleStepClick dispatches
StepClickAction(stepId, currentSelected, currentModality) ==
    IF stepId = currentSelected /\ ~Truthy(currentModality)
    THEN [type |-> "SET_SELECTED_STEP", payload |-> NULL]
    ELSE IF stepId = "collect" /\ Truthy(currentModality)
    THEN [type |-> "SET_SELECTED_MODALITY", payload |-> NULL]
    ELSE [type |-> "SET_SELECTED_STEP", payload |-> stepId]

\* a variant of the circle click that never toggles off
DataSourceClickActionSticky(modalityId, currentModality) ==
    [type |-> "SET_SELECTED_MODALITY", payload |-> modalityId]

\* the action handleDataSourceClick dispatches
DataSourceClickAction(modalityId, currentModality) ==
    [type |-> "SET_SELECTED_MODALITY",
     payload |-> IF modalityId = currentModality THEN NULL ELSE modalityId]

\* PipelineVisualization: a click on a stage card; the refs hold the
\* selection of the latest render
handleStepClick ==
    /\ HomeRendered /\ state.data # None
    /\ steps < MaxClicks
    /\ \E stepId \in StepIds :
        LET action == StepClickAction(stepId, state.selectedStep,
                                      state.selectedModality)
        IN  /\ state' = appReducer(state, action)
            /\ lastAction' = action
            /\ event' = ViewEvent("handleStepClick", stepId)
    /\ steps' = steps + 1
    /\ UNCHANGED <<load, fx, viz>>

\* PipelineVisualization: a click on a data-source circle
handleDataSourceClick ==
    /\ HomeRendered /\ state.data # None
    /\ steps < MaxClicks
    /\ \E modalityId \in ModalityIds :
        LET action == DataSourceClickAction(modalityId, state.selectedModality)
        IN  /\ state' = appReducer(state, action)
            /\ lastAction' = action
            /\ event' = ViewEvent("handleDataSourceClick", modalityId)
    /\ steps' = steps + 1
    /\ UNCHANGED <<load, fx, viz>>

\* PipelineSection: the "Clear selection" button, and the stage chip of
\* ActiveFilters
clearSelection ==
    /\ HomeRendered /\ Truthy(state.selectedStep)
    /\ steps < MaxClicks
    /\ LET action == [type |-> "SET_SELECTED_STEP", payload |-> NULL]
       IN  /\ state' = appReducer(state, action)
           /\ lastAction' = action
    /\ event' = ViewEvent("clearSelection", NULL)
    /\ steps' = steps + 1
    /\ UNCHANGED <<load, fx, viz>>

\* ControlsRow: the "Filters" button
filtersButton ==
    /\ HomeRendered
    /\ steps < MaxClicks
    /\ LET action == [type |-> "TOGGLE_FILTERS", payload |-> NULL]
       IN  /\ state' = appReducer(state, action)
           /\ lastAction' = action
    /\ event' = ViewEvent("filtersButton", NULL)
    /\ steps' = steps + 1
    /\ UNCHANGED <<load, fx, viz>>

\* ControlsRow: the "Compare" button
compareButton ==
    /\ HomeRendered
    /\ steps < MaxClicks
    /\ LET action == [type |-> "SET_COMPARE_MODE", payload |-> ~state.isCompareMode]
       IN  /\ state' = appReducer(state, action)
           /\ lastAction' = action
    /\ event' = ViewEvent("compareButton", NULL)
    /\ steps' = steps + 1
    /\ UNCHANGED <<load, fx, viz>>

\* what ActiveFilters shows its row for
ActiveFiltersShown(s) ==
    \/ Truthy(s.selectedStep)
    \/ Len(s.filters.modalities) > 0
    \/ Len(s.filters.tasks) > 0
    \/ s.filters.searchQuery # <<>>

\* ActiveFilters: "Clear all", two dispatches in one handler
clearAll ==
    /\ HomeRendered /\ ActiveFiltersShown(state)
    /\ steps < MaxClicks
    /\ LET first == [type |-> "SET_SELECTED_STEP", payload |-> NULL]
           second == [type |-> "SET_FILTERS",
                      payload |-> [searchQuery |-> <<>>, modalities |-> <<>>,
                                   tasks |-> <<>>]]
       IN  /\ state' = appReducer(appReducer(state, first), second)
           /\ lastAction' = second
    /\ event' = ViewEvent("clearAll", NULL)
    /\ steps' = steps + 1
    /\ UNCHANGED <<load, fx, viz>>

\* ActiveFilters: the chip of a selected modality
removeModalityChip ==
    /\ HomeRendered
    /\ steps < MaxClicks
    /\ \E mod \in Elements(state.filters.modalities) :
        LET action == [type |-> "SET_FILTERS",
                       payload |-> [modalities |->
                            SelectSeq(state.filters.modalities, LAMBDA m : m # mod)]]
        IN  /\ state' = appReducer(state, action)
            /\ lastAction' = action
            /\ event' = ViewEvent("removeModalityChip", mod)
    /\ steps' = steps + 1
    /\ UNCHANGED <<load, fx, viz>>

\* the names of the selectors the filters panel toggles
ArrayFilters == {"modalities", "tasks", "maturityLevels", "evidenceTypes"}

\* FiltersPanel: a click on a chip
toggleArrayFilter ==
    /\ HomeRendered /\ state.showFilters
    /\ steps < MaxClicks
    /\ \E filterName \in ArrayFilters :
       \E value \in getFilterOptions(AllMethods(state))[filterName] :
        LET current == state.filters[filterName]
            updated == IF Includes(current, value)
                       THEN SelectSeq(current, LAMBDA v : v # value)
                       ELSE current \o <<value>>
            action == [type |-> "SET_FILTERS",
                       payload |-> [k \in {filterName} |-> updated]]
        IN  /\ state' = appReducer(state, action)
            /\ lastAction' = action
            /\ event' = [handler |-> "toggleArrayFilter", arg |-> value,
                         filterName |-> filterName]
    /\ steps' = steps + 1
    /\ UNCHANGED <<load, fx, viz>>

\* what the filters panel shows its "Clear all" button for
hasActiveFilters(filters) ==
    \/ Truthy(filters.pipelineStep)
    \/ Len(filters.modalities) > 0
    \/ Len(filters.tasks) > 0
    \/ Len(filters.maturityLevels) > 0
    \/ Len(filters.evidenceTypes) > 0

\* FiltersPanel: "Clear all"
panelClearAll ==
    /\ HomeRendered /\ state.showFilters /\ hasActiveFilters(state.filters)
    /\ steps < MaxClicks
    /\ LET action == [type |-> "RESET_FILTERS", payload |-> NULL]
       IN  /\ state' = appReducer(state, action)
           /\ lastAction' = action
    /\ event' = ViewEvent("panelClearAll", NULL)
    /\ steps' = steps + 1
    /\ UNCHANGED <<load, fx, viz>>

\* MethodItem: a click on a row of the list in compare mode
handleClick ==
    /\ HomeRendered /\ state.isCompareMode
    /\ steps < MaxClicks
    /\ \E method \in Elements(FilteredMethods(state)) :
        LET action == [type |-> "TOGGLE_COMPARE_METHOD", payload |-> method.id]
        IN  /\ state' = appReducer(state, action)
            /\ lastAction' = action
            /\ event' = ViewEvent("handleClick", method.id)
    /\ steps' = steps + 1
    /\ UNCHANGED <<load, fx, viz>>

\* loadData() of the mount effect when the fetch delivers a dataset
loadDataResolves ==
    /\ load.pc = "fetching"
    /\ steps < MaxClicks
    /\ \E data \in LoadedDatasets : \E hits \in FuseOutcomes(data.methods) :
        /\ state' = loadDataTry(state, data, hits)
        /\ lastAction' = [type |-> "SET_DATA", payload |-> Some(data)]
        /\ load' = [load EXCEPT !.pc = "done", !.cachedData = Some(data)]
    /\ event' = ViewEvent("loadData", NULL)
    /\ steps' = steps + 1
    /\ UNCHANGED <<fx, viz>>

\* loadData() of the mount effect when the fetch fails
loadDataThrows ==
    /\ load.pc = "fetching"
    /\ steps < MaxClicks
    /\ \E message \in LoadErrors :
        /\ state' = loadDataCatch(state, message)
        /\ lastAction' = [type |-> "SET_ERROR", payload |-> message]
    /\ load' = [load EXCEPT !.pc = "done"]
    /\ event' = ViewEvent("loadData", NULL)
    /\ steps' = steps + 1
    /\ UNCHANGED <<fx, viz>>

\* hasFilters of MethodList's empty state
HasFilters(filters) ==
    \/ Truthy(filters.pipelineStep)
    \/ Len(filters.modalities) > 0
    \/ Len(filters.tasks) > 0
    \/ filters.searchQuery # <<>>

\* what MethodList renders
MethodListView(s) ==
    IF s.loading THEN "loading"
    ELSE IF Len(FilteredMethods(s)) = 0
         THEN IF HasFilters(s.filters)
              THEN "Try adjusting your filters or search query."
              ELSE "No methods have been added yet."
         ELSE "method-list"

InitViews == Init

NextViews ==
    \/ loadDataResolves
    \/ loadDataThrows
    \/ handleStepClick
    \/ handleDataSourceClick
    \/ clearSelection
    \/ filtersButton
    \/ compareButton
    \/ clearAll
    \/ removeModalityChip
    \/ toggleArrayFilter
    \/ panelClearAll
    \/ handleClick

SpecViews == InitViews /\ [][NextViews]_vars

(***************************************************************************)
(* The comparison radar: the normalized values of one method               *)
(***************************************************************************)
\* rank tables; a key that is not in the table gives undefined (None)
MATURITY_ORDER(maturity) ==
    CASE maturity = "research" -> Some(0)
      [] maturity = "emerging" -> Some(1)
      [] maturity = "established" -> Some(2)
      [] maturity = "mature" -> Some(3)
      [] OTHER -> None

AUTOMATION_ORDER(level) ==
    CASE level = "manual" -> Some(0)
      [] level = "semi-automated" -> Some(1)
      [] level = "automated" -> Some(2)
      [] OTHER -> None

dimensions ==
    << [key |-> "maturity",   max |-> 3],
       [key |-> "automation", max |-> 2],
       [key |-> "modalities", max |-> 6],
       [key |-> "tasks",      max |-> 10],
       [key |-> "inputs",     max |-> 5],
       [key |-> "outputs",    max |-> 5] >>

\* x ?? fallback
Nullish(x, fallback) == IF x = None THEN fallback ELSE x[1]

\* array?.length || fallback, the array given by its length (None: no array)
LengthOr(length, fallback) ==
    IF length = None \/ length[1] = 0 THEN fallback ELSE length[1]

\* a variant that keeps a length of 0
LengthOrNullish(length, fallback) ==
    IF length = None THEN fallback ELSE length[1]

Min(a, b) == IF a < b THEN a ELSE b

\* the value of one dimension as the fraction num / den
RadarValue(method, dim) ==
    [ den |-> dim.max,
      num |-> CASE dim.key = "maturity" ->
                      Nullish(MATURITY_ORDER(method.maturity), 1)
                [] dim.key = "automation" ->
                      Nullish(AUTOMATION_ORDER(method.automation_level), 1)
                [] dim.key = "modalities" ->
                      Min(LengthOr(method.modalities, 1), dim.max)
                [] dim.key = "tasks" ->
                      Min(LengthOr(method.tasks, 1), dim.max)
                [] dim.key = "inputs" ->
                      Min(LengthOr(method.inputs, 1), dim.max)
                [] dim.key = "outputs" ->
                      Min(LengthOr(method.outputs, 1), dim.max) ]

RadarValues(method) ==
    [i \in 1..Len(dimensions) |-> RadarValue(method, dimensions[i])]

\* the lengths drawn for a list whose dimension saturates at cap, and the
\* missing list
Lengths(cap) == {None} \cup {Some(n) : n \in {0, 1, cap - 1, cap, cap + 1, 2 * cap}}

\* the methods handed to the radar, their lists given by their lengths
RadarMethods ==
    [ maturity         : {"research", "emerging", "established", "mature", NULL},
      automation_level : {"manual", "semi-automated", "automated", NULL},
      modalities       : Lengths(6),
      tasks            : Lengths(10),
      inputs           : Lengths(5),
      outputs          : Lengths(5) ]

InitRadar ==
    /\ state = initialState
    /\ lastAction = [type |-> "INIT", payload |-> NULL]
    /\ steps = 0
    /\ load = [pc |-> "fetching", cachedData |-> None]
    /\ event = NoEvent
    /\ viz = NoViz
    /\ \E method \in RadarMethods :
          fx = [pc |-> "radar", method |-> method, values |-> <<>>]

Normalize ==
    /\ fx.pc = "radar"
    /\ fx' = [fx EXCEPT !.pc = "normalized", !.values = RadarValues(fx.method)]
    /\ UNCHANGED <<state, lastAction, steps, load, event, viz>>

NextRadar == Normalize

SpecRadar == InitRadar /\ [][NextRadar]_vars

(***************************************************************************)
(* loadMethodsData called several times: each call runs to its await and   *)
(* resumes when its fetch settles                                          *)
(***************************************************************************)
MaxCalls == 3

Calls == 1..MaxCalls

\* the object that response.json() of the n-th fetch builds
Parsed(n) == [fetch |-> n]

InitLoad ==
    /\ state = initialState
    /\ lastAction = [type |-> "INIT", payload |-> NULL]
    /\ steps = 0
    /\ event = NoEvent
    /\ viz = NoViz
    /\ fx = Idle
    /\ load = [ pc         |-> "calls",
                cachedData |-> None,
                fetches    |-> 0,
                calls      |-> [c \in Calls |-> [pc |-> "idle", fetch |-> 0,
                                                 returned |-> None]] ]

\* a call enters loadMethodsData: it returns cachedData when that is set,
\* else it starts a fetch and waits for it
callLoadMethodsData(c) ==
    /\ load.calls[c].pc = "idle"
    /\ IF load.cachedData # None
       THEN load' = [load EXCEPT !.calls[c].pc = "returned",
                                 !.calls[c].returned = load.cachedData]
       ELSE load' = [load EXCEPT !.fetches = load.fetches + 1,
                                 !.calls[c].pc = "fetching",
                                 !.calls[c].fetch = load.fetches + 1]
    /\ UNCHANGED <<state, lastAction, steps, fx, event, viz>>

\* the fetch of call c answers with a success status: the parsed object is
\* stored in cachedData and returned
fetchFulfilled(c) ==
    /\ load.calls[c].pc = "fetching"
    /\ load' = [load EXCEPT !.cachedData = Some(Parsed(load.calls[c].fetch)),
                            !.calls[c].pc = "returned",
                            !.calls[c].returned = Some(Parsed(load.calls[c].fetch))]
    /\ UNCHANGED <<state, lastAction, steps, fx, event, viz>>

\* the fetch of call c rejects or answers with a non-success status: the
\* call throws, cachedData is not written
fetchRejected(c) ==
    /\ load.calls[c].pc = "fetching"
    /\ load' = [load EXCEPT !.calls[c].pc = "thrown"]
    /\ UNCHANGED <<state, lastAction, steps, fx, event, viz>>

NextLoad ==
    \E c \in Calls :
        \/ callLoadMethodsData(c)
        \/ fetchFulfilled(c)
        \/ fetchRejected(c)

SpecLoad == InitLoad /\ [][NextLoad]_vars

(***************************************************************************)
(* A chart component (PipelineVisualization or LandscapeVisualization)     *)
(* on the loaded home page: its create, update and resize effects, the     *)
(* callbacks they schedule and the chart they leave in the container.      *)
(* Time advances in ticks of 50 ms.                                        *)
(***************************************************************************)
MaxRuns == 3

\* setTimeout(initViz, 50) and the 150 ms of the resize debounce, in ticks
RETRY_DELAY == 1
DEBOUNCE_DELAY == 3

\* the store once the load has delivered the first dataset
ChartData == [methods |-> <<Universe[1], Universe[2]>>]

ChartStore == loadDataTry(initialState, ChartData, <<>>)

\* the actions dispatched while the chart is shown: hover, selection and
\* reset, and the filter panel's change of the task filter
ChartActions ==
    { [type |-> "SET_HOVERED_METHOD", payload |-> id] : id \in {NULL, "m1"} }
    \cup { [type |-> "SET_SELECTED_METHOD", payload |-> id] : id \in {NULL, "m1"} }
    \cup { [type |-> "SET_SELECTED_STEP", payload |-> s] : s \in {NULL, "collect"} }
    \cup { [type |-> "SET_SELECTED_MODALITY", payload |-> m] : m \in {NULL, "text"} }
    \cup { [type |-> "RESET_FILTERS", payload |-> NULL] }

ChartFilterActions ==
    { [type |-> "SET_FILTERS", payload |-> [tasks |-> <<"cleaning">>]] }

\* a variant without memoization: every render computes a new list
FilteredMethodsChangedAlways(type) == TRUE

\* whether the render after an action of this type sees a new filteredMethods
\* array: the useMemo is keyed on data.methods, searchIndex and the filters
\* object, and these reducer cases are the ones that build a new one
FilteredMethodsChanged(type) ==
    type \in {"SET_DATA", "SET_SEARCH_INDEX", "SET_FILTERS", "RESET_FILTERS",
              "SET_SELECTED_STEP", "SET_SELECTED_MODALITY"}

\* the dependencies of the create effect have changed
CreateDepsChanged(kind, type) ==
    IF kind = "landscape" THEN type = "SET_DATA" \/ FilteredMethodsChanged(type)
    ELSE type = "SET_DATA"

\* the dependencies of the update effect have changed
UpdateDepsChanged(kind, s, t) ==
    IF kind = "landscape"
    THEN s.selectedStep # t.selectedStep \/ s.selectedMethodId # t.selectedMethodId
    ELSE s.selectedStep # t.selectedStep \/ s.selectedModality # t.selectedModality

\* chart.destroy(): the container of the chart is emptied
Destroy(v) ==
    IF v.chart = None THEN v
    ELSE [v EXCEPT !.chart = Some([v.chart[1] EXCEPT !.destroyed = TRUE]),
                   !.container = None,
                   !.ops = @ \o <<"destroy">>]

\* the cleanup of the create effect: cancelAnimationFrame(rafId), then
\* destroy of vizRef.current; the function initViz returns is not kept
Teardown(v) ==
    Destroy([v EXCEPT !.raf = @ \ {v.run}, !.torn = @ \cup {v.run}])

\* the body of the create effect: requestAnimationFrame(initViz)
StartRun(v) ==
    [v EXCEPT !.run = v.run + 1,
              !.raf = @ \cup {v.run + 1},
              !.live = @ \cup {v.run + 1}]

\* createPipelineVisualization / createLandscapeVisualization on the
\* container, from the inputs that effect run r has captured
Create(v, r) ==
    [v EXCEPT !.chart = Some([from |-> r, destroyed |-> FALSE]),
              !.container = Some(r),
              !.ops = @ \o <<"create">>]

\* initViz of effect run r: without container or width it schedules itself
\* again, else it creates the chart
initViz(v, r) ==
    IF r \notin v.live \/ v.width = "zero"
    THEN [v EXCEPT !.retry = @ \cup {[run |-> r, left |-> RETRY_DELAY]}]
    ELSE Create(v, r)

\* the update effect: vizRef.current.update(...)
Update(v) ==
    IF v.chart = None THEN v ELSE [v EXCEPT !.ops = @ \o <<"update">>]

Quiet(v) == [v EXCEPT !.ops = <<>>]

InitCharts ==
    /\ state = ChartStore
    /\ lastAction = [type |-> "SET_DATA", payload |-> Some(ChartData)]
    /\ steps = 0
    /\ load = [pc |-> "done", cachedData |-> Some(ChartData)]
    /\ fx = Idle
    /\ event = NoEvent
    /\ \E kind \in {"pipeline", "landscape"}, width \in {"zero", "nonzero"} :
          viz = [ kind      |-> kind,
                  mounted   |-> TRUE,
                  width     |-> width,     \* container.clientWidth
                  run       |-> 1,         \* latest run of the create effect
                  live      |-> {1},       \* runs whose containerRef is set
                  torn      |-> {},        \* runs whose cleanup has run
                  raf       |-> {1},       \* runs with a pending animation frame
                  retry     |-> {},        \* pending retry timers
                  debounce  |-> None,      \* pending resizeTimeout
                  chart     |-> None,      \* vizRef.current
                  container |-> None,      \* the chart drawn in the container
                  inLoop    |-> {},        \* runs superseded inside the retry loop
                  ops       |-> <<>> ]     \* chart calls of the latest step

\* an action is dispatched and the component renders again: cleanups of the
\* effects whose dependencies changed, then the effects in order
chartDispatch ==
    /\ viz.mounted
    /\ \E fromPanel \in BOOLEAN :
       \E action \in IF fromPanel THEN ChartFilterActions ELSE ChartActions :
        LET next == appReducer(state, action)
            recreate == CreateDepsChanged(viz.kind, action.type)
            looping == viz.width = "zero" /\ \E t \in viz.retry : t.run = viz.run
            v0 == IF recreate /\ looping
                  THEN [viz EXCEPT !.inLoop = @ \cup {viz.run}]
                  ELSE viz
            v1 == IF recreate THEN StartRun(Teardown(Quiet(v0))) ELSE Quiet(viz)
            v2 == IF UpdateDepsChanged(viz.kind, state, next) THEN Update(v1) ELSE v1
        IN  /\ recreate => viz.run < MaxRuns
            /\ state' = next
            /\ lastAction' = action
            /\ viz' = v2
    /\ event' = ViewEvent("dispatch", viz.kind)
    /\ UNCHANGED <<steps, load, fx>>

\* the animation frame of an effect run arrives
animationFrame ==
    /\ \E r \in viz.raf :
          viz' = initViz([Quiet(viz) EXCEPT !.raf = @ \ {r}], r)
    /\ event' = ViewEvent("initViz", viz.kind)
    /\ UNCHANGED <<state, lastAction, steps, load, fx>>

\* a retry timer is due
retryTimeout ==
    /\ \E t \in viz.retry :
        /\ t.left = 0
        /\ viz' = initViz([Quiet(viz) EXCEPT !.retry = @ \ {t}], t.run)
    /\ event' = ViewEvent("initViz", viz.kind)
    /\ UNCHANGED <<state, lastAction, steps, load, fx>>

\* the container is laid out
layout ==
    /\ viz.width = "zero"
    /\ viz' = [Quiet(viz) EXCEPT !.width = "nonzero"]
    /\ event' = ViewEvent("layout", viz.kind)
    /\ UNCHANGED <<state, lastAction, steps, load, fx>>

\* the rebuild both resize handlers perform
Recreate(v) ==
    IF v.mounted /\ v.chart # None THEN Create(Destroy(v), v.run) ELSE v

\* a resize event of the window: the pipeline diagram restarts its 150 ms
\* timer, the landscape plot rebuilds at once
handleResize ==
    /\ viz.mounted
    /\ viz' = IF viz.kind = "pipeline"
              THEN [Quiet(viz) EXCEPT !.debounce = Some(DEBOUNCE_DELAY)]
              ELSE Recreate(Quiet(viz))
    /\ event' = ViewEvent("handleResize", viz.kind)
    /\ UNCHANGED <<state, lastAction, steps, load, fx>>

\* the resizeTimeout of the pipeline diagram is due
resizeTimeout ==
    /\ viz.debounce = Some(0)
    /\ viz' = Recreate([Quiet(viz) EXCEPT !.debounce = None])
    /\ event' = ViewEvent("resizeTimeout", viz.kind)
    /\ UNCHANGED <<state, lastAction, steps, load, fx>>

\* 50 ms pass; callbacks that are due run first, and so does a pending
\* animation frame
tick ==
    /\ viz.raf = {}
    /\ \A t \in viz.retry : t.left > 0
    /\ viz.debounce # Some(0)
    /\ viz.retry # {} \/ viz.debounce # None
    /\ viz' = [Quiet(viz) EXCEPT
                 !.retry = {[t EXCEPT !.left = @ - 1] : t \in viz.retry},
                 !.debounce = IF @ = None THEN None ELSE Some(@[1] - 1)]
    /\ event' = ViewEvent("tick", viz.kind)
    /\ UNCHANGED <<state, lastAction, steps, load, fx>>

\* the page is left: the cleanups of all effects run, the refs are dropped
unmount ==
    /\ viz.mounted
    /\ viz' = [Teardown(Quiet(viz)) EXCEPT !.mounted = FALSE, !.live = {},
                                           !.debounce = None, !.chart = None,
                                           !.container = None]
    /\ event' = ViewEvent("unmount", viz.kind)
    /\ UNCHANGED <<state, lastAction, steps, load, fx>>

\* the page is shown again: a new component with new refs
mount ==
    /\ ~viz.mounted
    /\ viz.run < MaxRuns
    /\ viz' = [StartRun(Quiet(viz)) EXCEPT !.mounted = TRUE]
    /\ event' = ViewEvent("mount", viz.kind)
    /\ UNCHANGED <<state, lastAction, steps, load, fx>>

NextCharts ==
    \/ chartDispatch
    \/ animationFrame
    \/ retryTimeout
    \/ layout
    \/ handleResize
    \/ resizeTimeout
    \/ tick
    \/ unmount
    \/ mount

SpecCharts == InitCharts /\ [][NextCharts]_vars

(***************************************************************************)
(* viz/PipelineViz.js: the counts on the stage cards and source circles    *)
(***************************************************************************)
DATA_SOURCES == {"text", "image", "video", "audio", "sensor", "realtime"}

\* a variant that hands the filtered list to the diagram
vizDataFiltered(s) ==
    [pipelineSteps |-> validPipelineSteps, methods |-> FilteredMethods(s)]

\* the data PipelineVisualization hands to the diagram: all methods
vizData(s) ==
    [pipelineSteps |-> validPipelineSteps, methods |-> AllMethods(s)]

methodCounts(data) ==
    [step \in data.pipelineSteps |->
        Len(SelectSeq(data.methods, LAMBDA m : m.pipeline_step = step))]

modalityCounts(data) ==
    LET collectMethods == SelectSeq(data.methods, LAMBDA m : m.pipeline_step = "collect")
    IN  [source \in DATA_SOURCES |->
            Len(SelectSeq(collectMethods, LAMBDA m : source \in Elements(m.modalities)))]

(***************************************************************************)
(* AppStateProvider: the dispatches of loadData() one at a time, followed  *)
(* by the clicks of the home page                                          *)
(***************************************************************************)
\* a variant that stores the data before the search index
loadDataDispatchesDataFirst(data, hits) ==
    (IF ~validateMethodsData(data).isValid
     THEN << [type |-> "SET_VALIDATION_ERRORS",
              payload |-> validateMethodsData(data).errors] >>
     ELSE << >>)
    \o << [type |-> "SET_DATA", payload |-> Some(data)],
          [type |-> "SET_SEARCH_INDEX",
           payload |-> Some(createSearchIndex(data.methods, hits))] >>

\* the actions the try block of loadData() dispatches, in order
loadDataDispatches(data, hits) ==
    (IF ~validateMethodsData(data).isValid
     THEN << [type |-> "SET_VALIDATION_ERRORS",
              payload |-> validateMethodsData(data).errors] >>
     ELSE << >>)
    \o << [type |-> "SET_SEARCH_INDEX",
           payload |-> Some(createSearchIndex(data.methods, hits))],
          [type |-> "SET_DATA", payload |-> Some(data)] >>

InitMount ==
    /\ state = initialState
    /\ lastAction = [type |-> "INIT", payload |-> NULL]
    /\ steps = 0
    /\ load = [pc |-> "fetching", cachedData |-> None]
    /\ fx = Idle
    /\ event = NoEvent
    /\ viz = [kind |-> "provider", pending |-> <<>>]

\* await loadMethodsData() delivers the dataset
loadDataAwaited ==
    /\ load.pc = "fetching"
    /\ \E data \in LoadedDatasets : \E hits \in FuseOutcomes(data.methods) :
        /\ load' = [pc |-> "dispatching", cachedData |-> Some(data)]
        /\ viz' = [viz EXCEPT !.pending = loadDataDispatches(data, hits)]
    /\ event' = ViewEvent("loadData", NULL)
    /\ UNCHANGED <<state, lastAction, steps, fx>>

\* the next dispatch of the try block reaches the reducer
loadDataDispatch ==
    /\ load.pc = "dispatching"
    /\ state' = appReducer(state, Head(viz.pending))
    /\ lastAction' = Head(viz.pending)
    /\ viz' = [viz EXCEPT !.pending = Tail(viz.pending)]
    /\ load' = [load EXCEPT !.pc = IF Tail(viz.pending) = <<>> THEN "done"
                                   ELSE "dispatching"]
    /\ event' = ViewEvent("dispatch", NULL)
    /\ UNCHANGED <<steps, fx>>

\* loadMethodsData() throws and the catch block dispatches the error
loadDataCaught ==
    /\ load.pc = "fetching"
    /\ \E message \in LoadErrors :
        /\ state' = loadDataCatch(state, message)
        /\ lastAction' = [type |-> "SET_ERROR", payload |-> message]
    /\ load' = [load EXCEPT !.pc = "failed"]
    /\ event' = ViewEvent("loadData", NULL)
    /\ UNCHANGED <<steps, fx, viz>>

NextMount ==
    \/ loadDataAwaited
    \/ loadDataDispatch
    \/ loadDataCaught
    \/ handleStepClick
    \/ handleDataSourceClick
    \/ filtersButton
    \/ toggleArrayFilter
    \/ clearAll

SpecMount == InitMount /\ [][NextMount]_vars

(***************************************************************************)
(* views/ComparePage.jsx and components/CompareView.jsx: the comparison     *)
(* page behind a compare link, and the compare bar that navigates to it    *)
(***************************************************************************)
MaxLinkIds == 4

\* the dataset of the comparison: four known methods
CompareData == [methods |-> <<Universe[1], Universe[2], Universe[3], Universe[4]>>]

\* the parts between the commas of the methods parameter: known ids, an
\* unknown id and the empty part
LinkParts == {"m1", "m2", "m3", "m4", "zz", ""}

RECURSIVE LinksUpTo(_)
LinksUpTo(n) ==
    IF n = 0 THEN {<<>>}
    ELSE LET shorter == LinksUpTo(n - 1)
         IN  shorter \cup
             { Append(l, p) : l \in {x \in shorter : Len(x) = n - 1}, p \in LinkParts }

Links == LinksUpTo(MaxLinkIds)

\* searchParams.get('methods')?.split(',').filter(Boolean) || []
ParseMethodIds(parts) == SelectSeq(parts, LAMBDA p : p # "")

\* data.methods?.find(m => m.id === id) || null
getMethodById(data, id) ==
    IF data = None THEN None
    ELSE LET methods == data[1].methods
             found == {i \in DOMAIN methods : methods[i].id = id}
         IN  IF found = {} THEN None
             ELSE Some(methods[CHOOSE i \in found : \A j \in found : i <= j])

\* methodIds.map(id => getMethodById(data, id)).filter(Boolean)
RECURSIVE ResolveMethods(_, _)
ResolveMethods(data, ids) ==
    IF ids = <<>> THEN <<>>
    ELSE LET m == getMethodById(data, Head(ids))
         IN  (IF m = None THEN <<>> ELSE <<m[1]>>) \o ResolveMethods(data, Tail(ids))

\* what ComparePage shows for the link, and the methods ComparisonView
\* hands to createComparisonVisualization
ComparePageRender(s, parts) ==
    LET methodIds == ParseMethodIds(parts)
        methods == ResolveMethods(s.data, methodIds)
    IN  IF s.loading THEN [page |-> "loading", radar |-> <<>>]
        ELSE IF Truthy(s.error) THEN [page |-> "error", radar |-> <<>>]
        ELSE IF Len(methodIds) < 2 THEN [page |-> "placeholder", radar |-> <<>>]
        ELSE IF Len(methods) < 2 THEN [page |-> "empty", radar |-> <<>>]
        ELSE [page |-> "chart", radar |-> methods]

HomeRoute == [kind |-> "compare", route |-> "home", link |-> <<>>,
              page |-> "home", radar |-> <<>>]

CompareRoute(s, parts) ==
    LET shown == ComparePageRender(s, parts)
    IN  [kind |-> "compare", route |-> "compare", link |-> parts,
         page |-> shown.page, radar |-> shown.radar]

\* the application is opened on the explorer or on a compare link (a link
\* that is followed or typed into the address bar loads the application)
InitCompare ==
    /\ state = initialState
    /\ lastAction = [type |-> "INIT", payload |-> NULL]
    /\ steps = 0
    /\ load = [pc |-> "fetching", cachedData |-> None]
    /\ fx = Idle
    /\ event = NoEvent
    /\ \/ viz = HomeRoute
       \/ \E parts \in Links : viz = CompareRoute(initialState, parts)

Rendered(s) == IF viz.route = "compare" THEN CompareRoute(s, viz.link) ELSE viz

compareDataLoaded ==
    /\ load.pc = "fetching"
    /\ state' = loadDataTry(state, CompareData, <<>>)
    /\ lastAction' = [type |-> "SET_DATA", payload |-> Some(CompareData)]
    /\ load' = [load EXCEPT !.pc = "done", !.cachedData = Some(CompareData)]
    /\ viz' = Rendered(state')
    /\ event' = ViewEvent("loadData", NULL)
    /\ UNCHANGED <<steps, fx>>

compareDataFailed ==
    /\ load.pc = "fetching"
    /\ state' = loadDataCatch(state, "Failed to load data: 404")
    /\ lastAction' = [type |-> "SET_ERROR", payload |-> "Failed to load data: 404"]
    /\ load' = [load EXCEPT !.pc = "failed"]
    /\ viz' = Rendered(state')
    /\ event' = ViewEvent("loadData", NULL)
    /\ UNCHANGED <<steps, fx>>

\* the Compare button of the header on the explorer
compareModeButton ==
    /\ viz.route = "home" /\ HomeRendered
    /\ LET action == [type |-> "SET_COMPARE_MODE", payload |-> ~state.isCompareMode]
       IN  /\ state' = appReducer(state, action)
           /\ lastAction' = action
    /\ event' = ViewEvent("compareButton", NULL)
    /\ UNCHANGED <<steps, load, fx, viz>>

\* a click on a method of the list in compare mode
compareItemClick ==
    /\ viz.route = "home" /\ HomeRendered /\ state.isCompareMode
    /\ \E method \in Elements(FilteredMethods(state)) :
        LET action == [type |-> "TOGGLE_COMPARE_METHOD", payload |-> method.id]
        IN  /\ state' = appReducer(state, action)
            /\ lastAction' = action
            /\ event' = ViewEvent("handleClick", method.id)
    /\ UNCHANGED <<steps, load, fx, viz>>

\* CompareBar: the Compare button navigates with the ids joined by commas
handleCompare ==
    /\ viz.route = "home" /\ HomeRendered
    /\ state.isCompareMode /\ state.compareMethodIds # <<>>
    /\ Len(ResolveMethods(state.data, state.compareMethodIds)) >= 2
    /\ viz' = IF Len(state.compareMethodIds) >= 2
              THEN CompareRoute(state, state.compareMethodIds)
              ELSE viz
    /\ event' = ViewEvent("handleCompare", NULL)
    /\ UNCHANGED <<state, lastAction, steps, load, fx>>

\* CompareBar: the Clear button
handleCancel ==
    /\ viz.route = "home" /\ HomeRendered
    /\ state.isCompareMode /\ state.compareMethodIds # <<>>
    /\ LET action == [type |-> "CLEAR_COMPARE", payload |-> NULL]
       IN  /\ state' = appReducer(state, action)
           /\ lastAction' = action
    /\ event' = ViewEvent("handleCancel", NULL)
    /\ UNCHANGED <<steps, load, fx, viz>>

\* the "Back to Explorer" link of the comparison page
backToExplorer ==
    /\ viz.route = "compare" /\ HomeRendered
    /\ LET action == [type |-> "CLEAR_COMPARE", payload |-> NULL]
       IN  /\ state' = appReducer(state, action)
           /\ lastAction' = action
    /\ viz' = HomeRoute
    /\ event' = ViewEvent("backToExplorer", NULL)
    /\ UNCHANGED <<steps, load, fx>>

NextCompare ==
    \/ compareDataLoaded
    \/ compareDataFailed
    \/ compareModeButton
    \/ compareItemClick
    \/ handleCompare
    \/ handleCancel
    \/ backToExplorer

SpecCompare == InitCompare /\ [][NextCompare]_vars

(***************************************************************************)
(* The filter engine and sortMethods side by side                          *)
(***************************************************************************)
InitEngine == InitFilter \/ InitSort

NextEngine == ApplyFilters \/ Search \/ Sort

SpecEngine == InitEngine /\ [][NextEngine]_vars

(***************************************************************************)
(* Properties of the store                                                 *)
(***************************************************************************)
Dispatched(type) == lastAction.type = type

\* C1: in every reachable store state the compare set has between 0 and 3
\* elements.
C1_CompareSetSize ==
    Len(state.compareMethodIds) \in 0..3

\* C1 witness: the compare set is full and another action has been
\* dispatched since
C1_Witness ==
    /\ Len(state.compareMethodIds) = 3
    /\ Dispatched("SET_COMPARE_MODE")

\* C2: toggleCompareMethod(id) removes id when it is in the set, the other
\* ids keeping their order; else appends id when the set has fewer than 3
\* ids; else leaves the set as it is.
C2_ToggleCompare ==
    [][ lastAction'.type = "TOGGLE_COMPARE_METHOD" =>
            LET current == state.compareMethodIds
                id == lastAction'.payload
            IN  state'.compareMethodIds =
                    IF \E i \in 1..Len(current) : current[i] = id
                    THEN SelectSeq(current, LAMBDA x : x # id)
                    ELSE IF Len(current) < 3 THEN current \o <<id>>
                    ELSE current ]_vars

\* C2 witness: a new id has been toggled on a set of 3 ids, which is still
\* the same 3 ids
C2_Witness ==
    /\ Dispatched("TOGGLE_COMPARE_METHOD")
    /\ state.compareMethodIds = <<"m1", "m2", "m3">>
    /\ lastAction.payload = "m4"

\* C3: after setSelectedStep(s), for a stage id or null s, selectedStep and
\* filters.pipelineStep are s, selectedModality is null and
\* filters.modalities is empty.
C3_SetSelectedStep ==
    Dispatched("SET_SELECTED_STEP") =>
        /\ state.selectedStep = lastAction.payload
        /\ state.filters.pipelineStep = lastAction.payload
        /\ state.selectedModality = NULL
        /\ state.filters.modalities = <<>>

\* C3 witness: setSelectedStep('preprocess') has been dispatched on a store
\* that holds other filters; the stage filter is 'preprocess' and the
\* modality selector is empty
C3_Witness ==
    /\ Dispatched("SET_SELECTED_STEP")
    /\ lastAction.payload = "preprocess"
    /\ state.filters.pipelineStep = "preprocess"
    /\ state.filters.modalities = <<>>
    /\ state.filters.tasks # <<>>

\* C4: after setSelectedModality(m) with a non-null m, selectedStep and
\* filters.pipelineStep are 'collect', selectedModality is m and
\* filters.modalities is exactly [m].
C4_SetSelectedModality ==
    (Dispatched("SET_SELECTED_MODALITY") /\ lastAction.payload # NULL) =>
        /\ state.selectedStep = "collect"
        /\ state.filters.pipelineStep = "collect"
        /\ state.selectedModality = lastAction.payload
        /\ state.filters.modalities = <<lastAction.payload>>

\* C4 witness: 'image' has been selected while other filters are set
C4_Witness ==
    /\ Dispatched("SET_SELECTED_MODALITY")
    /\ lastAction.payload = "image"
    /\ state.filters.modalities = <<"image">>
    /\ state.filters.tasks # <<>>

\* C5 as stated: after setSelectedModality(null) the stage selector and the
\* modality selector are both cleared.
C5_Original ==
    (Dispatched("SET_SELECTED_MODALITY") /\ lastAction.payload = NULL) =>
        /\ state.selectedStep = NULL
        /\ state.filters.pipelineStep = NULL
        /\ state.selectedModality = NULL
        /\ state.filters.modalities = <<>>

\* C5 as amended: after setSelectedModality(null) selectedModality is null and
\* filters.modalities is empty, while selectedStep and filters.pipelineStep
\* are 'collect'.
C5_ClearModality ==
    (Dispatched("SET_SELECTED_MODALITY") /\ lastAction.payload = NULL) =>
        /\ state.selectedStep = "collect"
        /\ state.filters.pipelineStep = "collect"
        /\ state.selectedModality = NULL
        /\ state.filters.modalities = <<>>

\* C5 witness: setSelectedModality(null) has been dispatched
C5_Witness ==
    /\ Dispatched("SET_SELECTED_MODALITY")
    /\ lastAction.payload = NULL
    /\ state.selectedModality = NULL
    /\ state.selectedStep = "collect"

\* C6: resetFilters() restores the all-empty filter defaults and sets
\* selectedStep and selectedModality to null; every other field of the store
\* is left as it was.
C6_ResetFilters ==
    [][ lastAction'.type = "RESET_FILTERS" =>
            state' = [state EXCEPT
                !.filters = [ pipelineStep   |-> NULL,
                              modalities     |-> <<>>,
                              tasks          |-> <<>>,
                              evidenceTypes  |-> <<>>,
                              maturityLevels |-> <<>>,
                              yearRange      |-> [min |-> None, max |-> None],
                              searchQuery    |-> <<>> ],
                !.selectedStep = NULL,
                !.selectedModality = NULL] ]_vars

\* C6 witness: the filters have been reset while the compare set, the compare
\* mode and the dataset are not in their initial state
C6_Witness ==
    /\ Dispatched("RESET_FILTERS")
    /\ state.filters = FILTER_DEFAULTS
    /\ state.compareMethodIds # <<>>
    /\ state.isCompareMode
    /\ state.data # None

(***************************************************************************)
(* Properties of the filter engine                                         *)
(***************************************************************************)
EmptySelectors(filters) ==
    /\ filters.pipelineStep = NULL
    /\ filters.modalities = <<>>
    /\ filters.tasks = <<>>
    /\ filters.evidenceTypes = <<>>
    /\ filters.maturityLevels = <<>>
    /\ filters.yearRange = [min |-> None, max |-> None]

\* C7: with all selectors empty, stage and year bounds null and an empty
\* search query, applyFiltersAndSearch returns the input methods in their
\* original order.
C7_EmptyFiltersIdentity ==
    (fx.pc = "filtered" /\ EmptySelectors(fx.filters) /\ fx.filters.searchQuery = <<>>)
        => fx.result = fx.methods

\* C7 witness: three methods have been filtered with the empty FilterState
C7_Witness ==
    /\ fx.pc = "filtered"
    /\ EmptySelectors(fx.filters)
    /\ fx.filters.searchQuery = <<>>
    /\ Len(fx.methods) = 3
    /\ Len(fx.result) = 3

\* what the conjunction law asks of a method, category by category
Intersects(xs, ys) == \E i \in 1..Len(xs), j \in 1..Len(ys) : xs[i] = ys[j]
Member(x, ys) == \E j \in 1..Len(ys) : ys[j] = x

YearWithin(method, yearRange) ==
    /\ yearRange.min # None => (method.year # None /\ method.year[1] >= yearRange.min[1])
    /\ yearRange.max # None => (method.year # None /\ method.year[1] <= yearRange.max[1])

Satisfies(method, filters) ==
    /\ filters.pipelineStep # NULL => method.pipeline_step = filters.pipelineStep
    /\ filters.modalities # <<>> => Intersects(method.modalities, filters.modalities)
    /\ filters.tasks # <<>> => Intersects(method.tasks, filters.tasks)
    /\ filters.evidenceTypes # <<>> => Member(method.evidence_type, filters.evidenceTypes)
    /\ filters.maturityLevels # <<>> => Member(method.maturity, filters.maturityLevels)
    /\ YearWithin(method, filters.yearRange)

\* C8: with an empty search query the result of applyFiltersAndSearch holds
\* exactly the methods that satisfy every active category, in the input's
\* order.
C8_ConjunctionLaw ==
    (fx.pc = "filtered" /\ fx.filters.searchQuery = <<>>) =>
        fx.result = SelectSeq(fx.methods, LAMBDA m : Satisfies(m, fx.filters))

OnlyYearRange(filters) ==
    /\ filters.pipelineStep = NULL
    /\ filters.modalities = <<>>
    /\ filters.tasks = <<>>
    /\ filters.evidenceTypes = <<>>
    /\ filters.maturityLevels = <<>>
    /\ filters.searchQuery = <<>>

\* C9: the year-range filter retains a method whose year equals min or max,
\* and excludes a method with no year whenever min or max is set.
C9_YearRange ==
    (fx.pc = "filtered" /\ OnlyYearRange(fx.filters)) =>
        \A k \in 1..Len(fx.methods) :
            LET m == fx.methods[k]
                yr == fx.filters.yearRange
            IN  /\ (m.year # None /\ (m.year = yr.min \/ m.year = yr.max))
                      => Member(m, fx.result)
                /\ (m.year = None /\ (yr.min # None \/ yr.max # None))
                      => ~Member(m, fx.result)

(***************************************************************************)
(* Properties of sortMethods                                               *)
(***************************************************************************)
Position(seq, x) == CHOOSE i \in 1..Len(seq) : seq[i] = x

\* C10: sortMethods is stable for every key and for both orders: the result
\* is a rearrangement of the input in which two methods whose keys compare
\* equal keep their relative order.
C10_SortStable ==
    fx.pc = "sorted" =>
        /\ Len(fx.result) = Len(fx.methods)
        /\ \A k \in 1..Len(fx.methods) : Member(fx.methods[k], fx.result)
        /\ \A i, j \in 1..Len(fx.methods) :
              (i < j /\ Comparison(fx.methods[i], fx.methods[j], fx.sortBy) = 0) =>
                  Position(fx.result, fx.methods[i]) < Position(fx.result, fx.methods[j])

\* C10 witness: a descending sort by year has moved a method in front of two
\* methods of the same year, which kept their order
C10_Witness ==
    /\ fx.pc = "sorted"
    /\ fx.order = "desc"
    /\ fx.sortBy = "year"
    /\ Len(fx.methods) = 3
    /\ fx.methods[1].id = "m2"
    /\ fx.methods[2].id = "m5"
    /\ fx.methods[3].id = "m3"
    /\ fx.result[1].id = "m3"
    /\ fx.result[2].id = "m2"
    /\ fx.result[3].id = "m5"

(***************************************************************************)
(* Properties of the relevance order                                       *)
(***************************************************************************)
\* the score of a method as the catalog reads it: the annotated score, a
\* method without annotation counting as score 1 (100 hundredths)
ScoreOrWorst(method) ==
    IF method.searchScore = None THEN 100 ELSE method.searchScore[1]

\* C11: sortMethods with key 'searchScore' and order 'asc' returns the
\* methods in non-decreasing order of search score, a method without score
\* counting as score 1; a method of score 0 comes before every method of a
\* larger score.
C11_ScoreAscending ==
    (fx.pc = "sorted" /\ fx.sortBy = "searchScore" /\ fx.order = "asc") =>
        \A i, j \in 1..Len(fx.result) :
            i < j => ScoreOrWorst(fx.result[i]) <= ScoreOrWorst(fx.result[j])

NonBlank(q) == {i \in 1..Len(q) : q[i] # " "}

\* the length of q between its first and its last non-blank character
TrimmedLength(q) ==
    IF NonBlank(q) = {} THEN 0
    ELSE (CHOOSE i \in NonBlank(q) : \A j \in NonBlank(q) : j <= i)
         - (CHOOSE i \in NonBlank(q) : \A j \in NonBlank(q) : i <= j) + 1

\* C13: searchMethods returns the "no filter" value exactly when the query
\* is empty or shorter than 2 characters after trimming, and a list
\* otherwise, the empty list when nothing matches; applyFiltersAndSearch
\* keeps the full working set for such a short query and yields an empty
\* result for a query of 2 or more characters without match.
C13_SearchSentinel ==
    LET short == TrimmedLength(fx.filters.searchQuery) < 2
        noMatch == fx.index.hits = <<>>
    IN  /\ fx.pc = "searched" =>
              /\ fx.searched.applied = ~short
              /\ (~short /\ noMatch) => fx.searched.results = <<>>
              /\ short => fx.searched = NoSearch
        /\ fx.pc = "filtered" =>
              /\ short => fx.result = filterMethods(fx.methods, fx.filters)
              /\ (~short /\ noMatch) => fx.result = <<>>

\* C13 witness: a query of two characters and a trailing blank matched
\* nothing, and the result is empty although methods pass the selectors
C13_Witness ==
    /\ fx.pc = "filtered"
    /\ fx.filters.searchQuery = <<"a", "b", " ">>
    /\ fx.index.hits = <<>>
    /\ filterMethods(fx.methods, fx.filters) # <<>>
    /\ fx.result = <<>>

(***************************************************************************)
(* Properties of the pipeline diagram's click handlers                     *)
(***************************************************************************)
\* C14: a click on stage s when s is the selected stage and no modality is
\* selected leaves no stage filter; a click on 'collect' while a modality
\* is selected clears only the modality and leaves the stage 'collect'; any
\* other click on stage s selects s.
C14_StageClick ==
    [][ event'.handler = "handleStepClick" =>
            LET s == event'.arg
            IN  IF state.selectedStep = s /\ state.selectedModality = NULL
                THEN /\ state'.selectedStep = NULL
                     /\ state'.filters.pipelineStep = NULL
                ELSE IF s = "collect" /\ state.selectedModality # NULL
                THEN /\ state'.selectedModality = NULL
                     /\ state'.filters.modalities = <<>>
                     /\ state'.selectedStep = "collect"
                     /\ state'.filters.pipelineStep = "collect"
                     /\ state'.filters.tasks = state.filters.tasks
                     /\ state'.filters.searchQuery = state.filters.searchQuery
                ELSE /\ state'.selectedStep = s
                     /\ state'.filters.pipelineStep = s ]_vars

\* C14 witness: the click on 'collect' that cleared a selected modality
C14_Witness ==
    /\ event.handler = "handleStepClick"
    /\ event.arg = "collect"
    /\ Dispatched("SET_SELECTED_MODALITY")
    /\ state.selectedModality = NULL
    /\ state.selectedStep = "collect"
    /\ state.filters.pipelineStep = "collect"

\* C15: a click on the data-source circle m leaves no modality selected when
\* m was selected, and otherwise leaves m selected, in place of any modality
\* selected before, with filters.modalities = [m].
C15_CircleClick ==
    [][ event'.handler = "handleDataSourceClick" =>
            LET m == event'.arg
            IN  IF state.selectedModality = m
                THEN state'.selectedModality = NULL
                ELSE /\ state'.selectedModality = m
                     /\ state'.filters.modalities = <<m>> ]_vars

\* C15 witness: a click on the circle of the selected modality 'text' has
\* toggled it off
C15_Witness ==
    /\ event.handler = "handleDataSourceClick"
    /\ event.arg = "text"
    /\ Dispatched("SET_SELECTED_MODALITY")
    /\ lastAction.payload = NULL
    /\ state.selectedModality = NULL
    /\ state.filters.modalities = <<>>

(***************************************************************************)
(* Properties of the radar normalization                                   *)
(***************************************************************************)
\* num / den = a / b, for positive den and b
SameFraction(value, a, b) == value.num * b = a * value.den

\* min(count, cap) / cap
Saturated(value, count, cap) ==
    SameFraction(value, IF count < cap THEN count ELSE cap, cap)

\* C16: each of the six normalized values lies in [0,1] and equals maturity
\* rank/3, automation rank/2, min(modality count,6)/6, min(task count,10)/10,
\* min(input count,5)/5, min(output count,5)/5 for every count >= 0, so that
\* a count of 0 maps to 0 and a count at or above the cap maps to 1.
C16_RadarNormalization ==
    (/\ fx.pc = "normalized"
     /\ fx.method.maturity # NULL /\ fx.method.automation_level # NULL
     /\ fx.method.modalities # None /\ fx.method.tasks # None
     /\ fx.method.inputs # None /\ fx.method.outputs # None) =>
        LET m == fx.method
            v == fx.values
        IN  /\ Len(v) = 6
            /\ \A i \in 1..6 : 0 <= v[i].num /\ v[i].num <= v[i].den
            /\ SameFraction(v[1], MATURITY_ORDER(m.maturity)[1], 3)
            /\ SameFraction(v[2], AUTOMATION_ORDER(m.automation_level)[1], 2)
            /\ Saturated(v[3], m.modalities[1], 6)
            /\ Saturated(v[4], m.tasks[1], 10)
            /\ Saturated(v[5], m.inputs[1], 5)
            /\ Saturated(v[6], m.outputs[1], 5)

(***************************************************************************)
(* Properties of the dataset cache                                         *)
(***************************************************************************)
\* C17: across any sequence and interleaving of loadMethodsData calls the
\* dataset is fetched at most once, and all calls that succeed return the
\* same dataset object.
C17_FetchOnce ==
    /\ load.fetches <= 1
    /\ \A c, d \in Calls :
          (load.calls[c].pc = "returned" /\ load.calls[d].pc = "returned") =>
              load.calls[c].returned = load.calls[d].returned

(***************************************************************************)
(* Properties of the load sequence                                         *)
(***************************************************************************)
\* the dataset the load delivered
Fetched == load.cachedData[1]

\* the kinds of warning the validation of the fetched dataset collected
WarningKinds ==
    {state.validationErrors[i].kind : i \in 1..Len(state.validationErrors)}

\* C18: when the fetched dataset has a missing required field, an invalid
\* stage, modality or task value, or a duplicate id, the load still ends
\* with data = the dataset as fetched, loading = false, error = null and
\* validationErrors = the non-empty list of warnings collected.
C18_ValidationNonFatal ==
    (/\ event.handler = "loadData"
     /\ load.cachedData # None
     /\ \/ \E i \in 1..Len(Fetched.methods) :
              \/ Fetched.methods[i].name = NULL
              \/ Fetched.methods[i].pipeline_step \notin validPipelineSteps
              \/ \E k \in 1..Len(Fetched.methods[i].modalities) :
                    Fetched.methods[i].modalities[k] \notin validModalities
              \/ \E k \in 1..Len(Fetched.methods[i].tasks) :
                    Fetched.methods[i].tasks[k] \notin validTasks
        \/ \E i, j \in 1..Len(Fetched.methods) :
              i # j /\ Fetched.methods[i].id = Fetched.methods[j].id) =>
        /\ state.data = Some(Fetched)
        /\ state.loading = FALSE
        /\ state.error = NULL
        /\ state.validationErrors # <<>>
        /\ state.validationErrors = validateMethodsData(Fetched).errors

\* C18 witness: the load of the dataset with a duplicate id and an invalid
\* stage has ended, with both warnings stored and the dataset in the store
C18_Witness ==
    /\ event.handler = "loadData"
    /\ load.cachedData # None
    /\ state.data = load.cachedData
    /\ state.loading = FALSE
    /\ state.error = NULL
    /\ {"duplicate id", "invalid pipeline_step"} \subseteq WarningKinds

\* the fetch has failed and the load is over
LoadFailed == load.pc = "done" /\ load.cachedData = None

\* C19: when the dataset fetch rejects or answers with a non-success status
\* the store reaches a state with error = the failure message, loading =
\* false and data = null, and stays in it whatever is dispatched later; no
\* other fetch is started; filteredMethods is the empty list.
C19_LoadFailure ==
    [][ /\ (load.pc = "fetching" /\ load'.pc = "done" /\ load'.cachedData = None) =>
              /\ lastAction'.type = "SET_ERROR"
              /\ lastAction'.payload \in LoadErrors
              /\ state'.error = lastAction'.payload
              /\ state'.loading = FALSE
              /\ state'.data = None
              /\ FilteredMethods(state') = <<>>
        /\ LoadFailed =>
              /\ load' = load
              /\ state'.error = state.error
              /\ state'.loading = FALSE
              /\ state'.data = None
              /\ FilteredMethods(state') = <<>> ]_vars

\* C19 witness: filters have been set after the failed load, and the store
\* still shows the failure
C19_Witness ==
    /\ LoadFailed
    /\ Dispatched("SET_FILTERS")
    /\ state.filters.maturityLevels = <<"mature">>
    /\ state.error \in LoadErrors
    /\ state.loading = FALSE
    /\ state.data = None
    /\ FilteredMethods(state) = <<>>

(***************************************************************************)
(* Properties of the list view                                             *)
(***************************************************************************)
\* at least one of stage, modalities, tasks, evidence types, maturity
\* levels, year range and search query is set
AnyFilterActive(filters) ==
    ~EmptySelectors(filters) \/ filters.searchQuery # <<>>

\* C20: when the filtered result is empty, the list view shows the "adjust
\* your filters or search query" text if and only if at least one filter is
\* active, and the "no methods have been added yet" text only when no
\* filter at all is active.
C20_EmptyStateText ==
    (HomeRendered /\ Len(FilteredMethods(state)) = 0) =>
        /\ MethodListView(state) = "Try adjusting your filters or search query."
              <=> AnyFilterActive(state.filters)
        /\ MethodListView(state) = "No methods have been added yet."
              => ~AnyFilterActive(state.filters)

(***************************************************************************)
(* Properties of the chart components                                      *)
(***************************************************************************)
\* C21: after an effect run of a chart component is torn down, no init
\* callback scheduled by that run is pending: neither its animation frame
\* nor its 50 ms retry timer.
C21_TeardownReleases ==
    viz.kind # "none" =>
        \A r \in viz.torn :
            /\ r \notin viz.raf
            /\ \A t \in viz.retry : t.run # r

\* C22: for both charts, resize events are debounced: no chart call is made
\* inside a resize event, and the rebuild that follows a burst runs from the
\* resize timer once 150 ms (DEBOUNCE_DELAY ticks) have passed since the
\* last event of the burst, after which no timer is left.
C22_ResizeDebounced ==
    [][ /\ event'.handler = "handleResize" => viz'.ops = <<>>
        /\ event'.handler = "resizeTimeout" =>
              /\ viz.debounce = Some(0)
              /\ viz'.debounce = None
        /\ (event'.handler = "handleResize" /\ viz.chart # None) =>
              viz'.debounce = Some(DEBOUNCE_DELAY) ]_vars

\* the store change of a step only alters the selection the chart shows
SelectionOnly(kind, type) ==
    \/ type \in {"SET_HOVERED_METHOD", "SET_SELECTED_METHOD"}
    \/ kind = "pipeline" /\ type \in {"SET_SELECTED_STEP", "SET_SELECTED_MODALITY"}

\* C23: a store change that alters only the selection (hover, selected
\* method; for the pipeline diagram also stage and modality) makes no chart
\* call other than update() and starts no new run of the create effect; a
\* change of the filters tears the current run of the landscape plot down
\* (destroying its chart first) and schedules the creation of a new chart.
C23_UpdateVersusRecreate ==
    [][ event'.handler = "dispatch" =>
          /\ SelectionOnly(viz.kind, lastAction'.type) =>
                /\ viz'.ops \in {<<>>, <<"update">>}
                /\ viz'.run = viz.run
                /\ viz'.chart = viz.chart
                /\ UpdateDepsChanged(viz.kind, state, state') /\ viz.chart # None
                      => viz'.ops = <<"update">>
          /\ ( viz.kind = "landscape"
               /\ lastAction'.type \in {"SET_FILTERS", "RESET_FILTERS"} ) =>
                /\ viz'.run = viz.run + 1
                /\ viz.run \in viz'.torn
                /\ viz'.run \in viz'.raf
                /\ viz'.container = None
                /\ viz.chart # None =>
                      /\ viz'.ops[1] = "destroy"
                      /\ viz'.chart[1].destroyed ]_vars

C23_Witness ==
    /\ event.handler = "dispatch"
    /\ viz.kind = "landscape"
    /\ lastAction.type = "SET_SELECTED_METHOD"
    /\ viz.ops = <<"update">>
    /\ viz.container = Some(2)

\* the positions of the loaded dataset
Loaded == IF state.data = None THEN <<>> ELSE state.data[1].methods

\* C24 (as stated): the card of stage s shows the number of methods of the
\* full dataset in stage s, and the circle of modality m the number of
\* methods of the full dataset whose modalities include m.
C24_Original ==
    HomeRendered =>
        /\ \A s \in validPipelineSteps :
              methodCounts(vizData(state))[s] =
                  Cardinality({i \in DOMAIN Loaded : Loaded[i].pipeline_step = s})
        /\ \A m \in DATA_SOURCES :
              modalityCounts(vizData(state))[m] =
                  Cardinality({i \in DOMAIN Loaded : m \in Elements(Loaded[i].modalities)})

\* C24: the counts of the pipeline diagram are taken from the full dataset,
\* whatever the filters: the card of stage s shows the number of methods in
\* stage s, and the circle of modality m the number of collect-stage methods
\* whose modalities include m.
C24_Counts ==
    HomeRendered =>
        /\ \A s \in validPipelineSteps :
              methodCounts(vizData(state))[s] =
                  Cardinality({i \in DOMAIN Loaded : Loaded[i].pipeline_step = s})
        /\ \A m \in DATA_SOURCES :
              modalityCounts(vizData(state))[m] =
                  Cardinality({i \in DOMAIN Loaded :
                                  /\ Loaded[i].pipeline_step = "collect"
                                  /\ m \in Elements(Loaded[i].modalities)})

C24_Witness ==
    /\ HomeRendered
    /\ state.filters.pipelineStep = "preprocess"
    /\ Len(FilteredMethods(state)) < Len(Loaded)
    /\ modalityCounts(vizData(state))["text"] = 1
    /\ methodCounts(vizData(state))["collect"] = 1

\* the parts of the link that are ids of loaded methods
KnownParts(parts) ==
    SelectSeq(parts, LAMBDA p : \E i \in DOMAIN Loaded : Loaded[i].id = p)

\* C25: on the comparison page of a loaded application, a link with fewer
\* than 2 known method ids shows a placeholder and no chart, and the radar
\* chart is drawn for 2 or 3 methods, never for more.
C25_CompareTwoOrThree ==
    (viz.kind = "compare" /\ viz.route = "compare" /\ HomeRendered) =>
        /\ Len(KnownParts(viz.link)) < 2 =>
              /\ viz.page \in {"placeholder", "empty"}
              /\ viz.radar = <<>>
        /\ Len(viz.radar) <= 3
        /\ viz.page = "chart" => Len(viz.radar) \in {2, 3}

\* C26: in every store state reachable by the actions, a selected modality
\* implies the collect stage.
C26_ModalityImpliesCollect ==
    state.selectedModality # NULL => state.selectedStep = "collect"

C26_Witness ==
    /\ state.selectedModality # NULL
    /\ state.selectedStep = "collect"
    /\ lastAction.type \notin {"SET_SELECTED_MODALITY", "INIT"}

\* the list the landscape plot would be created from if the search box held
\* the query q and the search library answered hits
PlottedWith(q, hits) ==
    applyFiltersAndSearch(Loaded, createSearchIndex(Loaded, hits),
                          [state.filters EXCEPT !.searchQuery = q])

\* C27: in every state reachable through the actions the views dispatch,
\* the stage filter equals the stage selection; so when the landscape plot
\* is created with a highlighted stage, every method it plots belongs to
\* that stage, whatever is typed into the search box.
C27_StageAgreement ==
    /\ state.filters.pipelineStep = state.selectedStep
    /\ (HomeRendered /\ state.selectedStep # NULL) =>
          /\ \A m \in Elements(FilteredMethods(state)) :
                m.pipeline_step = state.selectedStep
          /\ \A q \in EngineQueries : \A hits \in FuseOutcomes(Loaded) :
                \A m \in Elements(PlottedWith(q, hits)) :
                    m.pipeline_step = state.selectedStep

C27_Witness ==
    /\ HomeRendered
    /\ state.selectedStep = "preprocess"
    /\ lastAction.type = "SET_FILTERS"
    /\ FilteredMethods(state) # <<>>
    /\ Len(FilteredMethods(state)) < Len(Loaded)

\* C28: during and after loading, a store that holds the data also holds
\* the search index; so once loading is false and there is no error,
\* filteredMethods is the result of applyFiltersAndSearch over the loaded
\* methods, never the fallback list of a store without index.
C28_IndexBeforeData ==
    /\ state.data # None => state.searchIndex # None
    /\ HomeRendered =>
          /\ state.data # None /\ state.searchIndex # None
          /\ FilteredMethods(state) =
                applyFiltersAndSearch(state.data[1].methods, state.searchIndex[1],
                                      state.filters)

C28_Witness ==
    /\ load.pc = "dispatching"
    /\ lastAction.type = "SET_SEARCH_INDEX"
    /\ state.searchIndex # None
    /\ state.data = None
    /\ state.loading

\* C29: compareMethodIds never holds an id twice, and its ids are in the
\* order of their last addition: a step leaves the list as it is, empties
\* it, takes one id out without moving the others, or puts an id that is
\* not in the list at its end.
C29_CompareOrder ==
    [][ LET cur == state.compareMethodIds
            nxt == state'.compareMethodIds
        IN  /\ \A i, j \in DOMAIN nxt : i # j => nxt[i] # nxt[j]
            /\ \/ nxt = cur
               \/ nxt = <<>>
               \/ \E k \in DOMAIN cur :
                     nxt = SubSeq(cur, 1, k - 1) \o SubSeq(cur, k + 1, Len(cur))
               \/ /\ Len(nxt) = Len(cur) + 1
                  /\ SubSeq(nxt, 1, Len(cur)) = cur
                  /\ \A i \in DOMAIN cur : cur[i] # nxt[Len(nxt)] ]_vars

C29_Witness ==
    /\ lastAction.type = "TOGGLE_COMPARE_METHOD"
    /\ state.compareMethodIds = <<"m2", "m1">>
    /\ lastAction.payload = "m1"
    /\ steps = 4

\* C30: if the create effect of the landscape plot was re-run while the
\* container had zero width and the retry loop was pending, then once the
\* container has a width and no scheduled callback is left, the chart in
\* the container and in vizRef is the one the latest effect run created.
C30_LatestChartWins ==
    ( /\ viz.kind = "landscape"
      /\ viz.mounted
      /\ viz.inLoop # {}
      /\ viz.width = "nonzero"
      /\ viz.raf = {}
      /\ viz.retry = {} ) =>
        /\ viz.chart = Some([from |-> viz.run, destroyed |-> FALSE])
        /\ viz.container = Some(viz.run)

====
